---- MODULE Spec2Model ----
(***************************************************************************)
(* odianumerals: the numeral conversion engine.                            *)
(*                                                                         *)
(* Every conversion is a pure function of its arguments.  The state of the *)
(* model is one call: the arguments (drawn by Init), the operation that    *)
(* was applied to them and its outcome (a returned value or the exception  *)
(* that escaped).                                                          *)
(*                                                                         *)
(* Representation of Python values                                         *)
(*   int          unbounded; a non-negative int is its decimal digit       *)
(*                sequence without leading zeros (<<0>> for zero)          *)
(*   number       a record [type, form, neg, ip, frac]: type is the Python *)
(*                type ("int", "float", "str", "NoneType"), form tells a   *)
(*                finite decimal ("fin") from "nan", "inf" and text that   *)
(*                is no numeral ("bad"); neg is the sign, ip the digits of *)
(*                the integer part, frac the digits after the point        *)
(*   str          a sequence of characters; a word of a label table is one *)
(*                symbol [tbl, key, reg] (entry key of table tbl, register *)
(*                reg), the blank is the symbol SP                         *)
(*   text         a str argument given character by character: a sequence *)
(*                of one-character strings, Odia characters named by code  *)
(*                point ("U+0B67")                                         *)
(*   outcome      [exc, val]: exc = "none" and the returned value, or the  *)
(*                name of the exception that was raised                    *)
(***************************************************************************)
EXTENDS Integers, Sequences, FiniteSets, TLC

VARIABLES op, given, number, text, as_roman, as_odilish, as_english,
          to_english, use_odia_digits, barnabodha_style, stack, result

vars == <<op, given, number, text, as_roman, as_odilish, as_english,
          to_english, use_odia_digits, barnabodha_style, stack, result>>

\* the optional arguments of single functions (replace_numbers,
\* format_indian_style, to_odia_currency), at their defaults unless the
\* function is the one called
options == <<to_english, use_odia_digits, barnabodha_style>>

----------------------------------------------------------------------------
(* Bounds of the explored inputs                                           *)

\* every integer 0..MaxSmall is an input
MaxSmall == 1012
\* multiples q * 10^e + r of every power of ten, q in 1..MaxQuot
MaxQuot == 12
\* largest power of ten used to build integer inputs (every input stays below
\* 2^53, where float() of an int is exact)
MaxExp == 13
\* fractional parts have at most MaxFracLen digits
MaxFracLen == 3
\* every text of at most MaxTextLen characters of TextAlphabet is an input
MaxTextLen == 3
\* every text of at most MaxTokens tokens of Tokens is an input
MaxTokens == 3
\* the ordinals 0..MaxOrdinal are inputs, with and without an affix
MaxOrdinal == 125

----------------------------------------------------------------------------
(* Outcomes                                                                *)

Ok(v) == [exc |-> "none", val |-> v]

Raise(e) == [exc |-> e, val |-> <<>>]

----------------------------------------------------------------------------
(* Unbounded non-negative integers as digit sequences                      *)

Digit == 0..9

ZERO == <<0>>

RECURSIVE Dec(_)
\* the digits of the natural number n (str(n) read as digits)
Dec(n) == IF n < 10 THEN <<n>> ELSE Append(Dec(n \div 10), n % 10)

RECURSIVE ToInt(_)
\* the natural number with digits d (only for values TLC can hold)
ToInt(d) == IF Len(d) = 0 THEN 0 ELSE 10 * ToInt(SubSeq(d, 1, Len(d) - 1)) + d[Len(d)]

RECURSIVE Norm(_)
\* drop leading zeros
Norm(d) == IF Len(d) > 1 /\ d[1] = 0 THEN Norm(Tail(d)) ELSE IF d = <<>> THEN ZERO ELSE d

RECURSIVE Zeros(_)
Zeros(k) == IF k <= 0 THEN <<>> ELSE <<0>> \o Zeros(k - 1)

\* 10^e
Pow10(e) == <<1>> \o Zeros(e)

RECURSIVE LexGE(_, _)
LexGE(a, b) ==
    IF a = <<>> THEN TRUE
    ELSE IF a[1] # b[1] THEN a[1] > b[1]
    ELSE LexGE(Tail(a), Tail(b))

\* a >= b
GE(a, b) == Len(a) > Len(b) \/ (Len(a) = Len(b) /\ LexGE(a, b))

AllZero(d) == \A i \in 1..Len(d) : d[i] = 0

\* a // d and a % d for a divisor d that is a power of ten (every divisor of
\* the program is one: the keys of UNITS and BARNABODHA_UNITS, 100 and 10)
FloorDiv(a, d) ==
    LET k == Len(d) - 1
    IN  IF Len(a) <= k THEN ZERO ELSE SubSeq(a, 1, Len(a) - k)

Mod(a, d) ==
    LET k == Len(d) - 1
    IN  IF Len(a) <= k THEN a ELSE Norm(SubSeq(a, Len(a) - k + 1, Len(a)))

RECURSIVE Succ(_)
\* d + 1 on digits (leading zeros are kept, a carry out of the first digit
\* lengthens the sequence)
Succ(d) ==
    IF d = <<>> THEN <<1>>
    ELSE IF d[Len(d)] < 9 THEN [d EXCEPT ![Len(d)] = @ + 1]
    ELSE Append(Succ(SubSeq(d, 1, Len(d) - 1)), 0)

RECURSIVE div_from(_, _, _, _)
\* the digits of d // by from position i on, c the remainder carried in;
\* by is a small number
div_from(d, i, c, by) ==
    IF i > Len(d) THEN <<>>
    ELSE <<(10 * c + d[i]) \div by>> \o div_from(d, i + 1, (10 * c + d[i]) % by, by)

\* d // by
DivSmall(d, by) == CHOOSE r \in {Norm(div_from(m, 1, 0, by)) : m \in {d}} : TRUE

RECURSIVE mod_from(_, _, _, _)
mod_from(d, i, c, by) ==
    IF i > Len(d) THEN c ELSE mod_from(d, i + 1, (10 * c + d[i]) % by, by)

\* d % by
ModSmall(d, by) == CHOOSE r \in {mod_from(m, 1, 0, by) : m \in {d}} : TRUE

RECURSIVE mul_from(_, _, _, _)
\* the digits of by * d[1..i] + c
mul_from(d, i, c, by) ==
    IF i = 0 THEN (IF c = 0 THEN <<>> ELSE Dec(c))
    ELSE mul_from(d, i - 1, (by * d[i] + c) \div 10, by) \o <<(by * d[i] + c) % 10>>

\* by * d
MulSmall(d, by) == CHOOSE r \in {mul_from(m, Len(m), 0, by) : m \in {d}} : TRUE

RECURSIVE Scale(_, _, _)
\* d * by^k
Scale(d, by, k) ==
    IF k = 0 THEN d
    ELSE CHOOSE r \in {Scale(p, by, k - 1) : p \in {MulSmall(d, by)}} : TRUE

\* 2^53: a float holds 53 binary digits
TWO53 == <<9, 0, 0, 7, 1, 9, 9, 2, 5, 4, 7, 4, 0, 9, 9, 2>>

\* 2^57 and 2^69
TWO57 == MulSmall(TWO53, 16)

TWO69 == MulSmall(TWO53, 65536)

\* the binary digits dropped in one step: sixteen, four or one, as many as
\* leaves 53 of them
StepBits(m) == IF GE(m, TWO69) THEN 16 ELSE IF GE(m, TWO57) THEN 4 ELSE 1

RECURSIVE nearest_double(_, _, _, _)
\* the float nearest to a natural number (ties to even): m is the number
\* without its last bits binary digits, guard the last digit dropped and
\* sticky whether a one was dropped before it
nearest_double(m, guard, sticky, bits) ==
    IF GE(m, TWO53)
    THEN CHOOSE r \in
            {nearest_double(p.quotient, p.remainder >= p.half,
                            sticky \/ guard \/ p.remainder % p.half # 0,
                            bits + p.bits) :
                p \in {[quotient |-> DivSmall(m, 2^b), remainder |-> ModSmall(m, 2^b),
                        half |-> 2^(b - 1), bits |-> b] : b \in {StepBits(m)}}} : TRUE
    ELSE CHOOSE r \in
            {Scale(Scale(rounded, 2, k % 16), 65536, k \div 16) :
                rounded \in {IF guard /\ (sticky \/ ModSmall(m, 2) = 1) THEN Succ(m) ELSE m},
                k \in {bits}} : TRUE

----------------------------------------------------------------------------
(* Python values                                                           *)

PyInt(neg, digits) ==
    [type |-> "int", form |-> "fin", neg |-> neg /\ digits # ZERO,
     ip |-> digits, frac |-> <<>>]

PyFloat(neg, ip, frac) ==
    [type |-> "float", form |-> "fin", neg |-> neg, ip |-> ip, frac |-> frac]

\* numeral text [-]ip[.frac]; the point is written iff frac is not empty
PyStr(neg, ip, frac) ==
    [type |-> "str", form |-> "fin", neg |-> neg, ip |-> ip, frac |-> frac]

Special(type, form, neg) ==
    [type |-> type, form |-> form, neg |-> neg, ip |-> ZERO, frac |-> <<>>]

\* x < 0 for a float x
LessThanZero(x) ==
    \/ x.form = "inf" /\ x.neg
    \/ x.form = "fin" /\ x.neg /\ ~(AllZero(x.ip) /\ AllZero(x.frac))

\* builtin float(x): an integer is rounded to 53 binary digits (below 2^53
\* it is kept as it is); a fraction is exact for at most 15 significant
\* digits, which every explored fraction has
float(x) ==
    CASE x.type = "NoneType" -> Raise("TypeError")
      [] x.type = "str" /\ x.form = "bad" -> Raise("ValueError")
      [] x.form = "fin" /\ AllZero(x.frac) /\ GE(x.ip, TWO53) ->
            Ok([x EXCEPT !.type = "float", !.ip = nearest_double(x.ip, FALSE, FALSE, 0)])
      [] OTHER -> Ok([x EXCEPT !.type = "float"])

\* builtin int(x): truncation toward zero for a float, a parse for text
int(x) ==
    CASE x.type = "NoneType" -> Raise("TypeError")
      [] x.type = "int" -> Ok(x)
      [] x.type = "str" ->
            IF x.form = "fin" /\ x.frac = <<>>
            THEN Ok(PyInt(x.neg, x.ip))
            ELSE Raise("ValueError")
      [] OTHER ->
            CASE x.form = "nan" -> Raise("ValueError")
              [] x.form = "inf" -> Raise("OverflowError")
              [] OTHER -> Ok(PyInt(x.neg, x.ip))

----------------------------------------------------------------------------
(* Characters                                                              *)

DIGIT_CHARS == <<"0", "1", "2", "3", "4", "5", "6", "7", "8", "9">>

DigitChar(d) == DIGIT_CHARS[d + 1]

IsDigitChar(c) == \E d \in Digit : DIGIT_CHARS[d + 1] = c

CharDigit(c) == CHOOSE d \in Digit : DIGIT_CHARS[d + 1] = c

DigitChars(d) == CHOOSE r \in {[i \in 1..Len(v) |-> DigitChar(v[i])] : v \in {d}} : TRUE

CharDigits(s) == [i \in 1..Len(s) |-> CharDigit(s[i])]

\* str(n) for an int n
str(n) == (IF n.neg THEN <<"-">> ELSE <<>>) \o DigitChars(n.ip)

RECURSIVE rstrip(_, _)
\* s.rstrip(c)
rstrip(s, c) ==
    IF Len(s) > 0 /\ s[Len(s)] = c THEN rstrip(SubSeq(s, 1, Len(s) - 1), c) ELSE s

\* index of the first "." of s, 0 when there is none
DotAt(s) ==
    IF \E i \in 1..Len(s) : s[i] = "."
    THEN CHOOSE i \in 1..Len(s) : s[i] = "." /\ \A j \in 1..(i - 1) : s[j] # "."
    ELSE 0

\* the Odia digits U+0B66 .. U+0B6F, in the order of their values
ODIA_DIGIT_CHARS ==
    <<"U+0B66", "U+0B67", "U+0B68", "U+0B69", "U+0B6A",
      "U+0B6B", "U+0B6C", "U+0B6D", "U+0B6E", "U+0B6F">>

IsOdiaDigit(c) == \E d \in Digit : ODIA_DIGIT_CHARS[d + 1] = c

OdiaDigitValue(c) == CHOOSE d \in Digit : ODIA_DIGIT_CHARS[d + 1] = c

\* the characters float() and int() read as decimal digits: they take the
\* digits of every script
IsDecimalChar(c) == IsDigitChar(c) \/ IsOdiaDigit(c)

DecimalValue(c) == IF IsDigitChar(c) THEN CharDigit(c) ELSE OdiaDigitValue(c)

RECURSIVE lstrip(_, _)
\* s.lstrip(c)
lstrip(s, c) == IF Len(s) > 0 /\ s[1] = c THEN lstrip(Tail(s), c) ELSE s

\* s.strip() for text whose only whitespace is " "
text_strip(s) == lstrip(rstrip(s, " "), " ")

AllDecimal(u) == \A i \in 1..Len(u) : IsDecimalChar(u[i])

DecimalValues(u) == [i \in 1..Len(u) |-> DecimalValue(u[i])]

\* the numeral with the digit characters ipart before and fpart after the
\* point ("5." and ".5" are read as 5.0 and 0.5; leading zeros do not change
\* the value)
NumeralOfParts(neg, ipart, fpart, dotted) ==
    IF AllDecimal(ipart) /\ AllDecimal(fpart) /\ Len(ipart) + Len(fpart) > 0
    THEN PyStr(neg,
               IF ipart = <<>> THEN ZERO ELSE Norm(DecimalValues(ipart)),
               IF ~dotted THEN <<>> ELSE IF fpart = <<>> THEN <<0>> ELSE DecimalValues(fpart))
    ELSE Special("str", "bad", FALSE)

NumeralSplit(neg, body, dot) ==
    IF dot = 0 THEN NumeralOfParts(neg, body, <<>>, FALSE)
    ELSE NumeralOfParts(neg, SubSeq(body, 1, dot - 1), SubSeq(body, dot + 1, Len(body)), TRUE)

NumeralUnsigned(neg, body) ==
    CASE body = <<"n", "a", "n">> -> Special("str", "nan", FALSE)
      [] body = <<"i", "n", "f">> -> Special("str", "inf", neg)
      [] OTHER -> NumeralSplit(neg, body, DotAt(body))

NumeralSigned(t) ==
    IF Len(t) > 0 /\ t[1] = "-" THEN NumeralUnsigned(TRUE, Tail(t)) ELSE NumeralUnsigned(FALSE, t)

\* the numeral the builtins float() and int() read in the text s, as the
\* record of that text: surrounding blanks dropped, an optional "-", digits
\* with at most one ".", or nan, or inf; anything else is no numeral.
\* (Exponents, "+" and "_" are not among the explored characters.)
Numeral(s) == NumeralSigned(text_strip(s))

\* the characters of a str argument given as a record
Spelling(x) ==
    CASE x.form = "nan" -> <<"n", "a", "n">>
      [] x.form = "inf" -> (IF x.neg THEN <<"-">> ELSE <<>>) \o <<"i", "n", "f">>
      [] x.form = "bad" -> <<"a", "b", "c">>
      [] OTHER -> (IF x.neg THEN <<"-">> ELSE <<>>) \o DigitChars(x.ip)
                  \o (IF x.frac = <<>> THEN <<>> ELSE <<".">> \o DigitChars(x.frac))

----------------------------------------------------------------------------
(* constants.py: the label tables                                          *)

Label(tbl, key, reg) == <<[tbl |-> tbl, key |-> key, reg |-> reg]>>

\* " "
SP == [tbl |-> "SP", key |-> <<>>, reg |-> 0]

\* faulty variant: the register is ignored, the native entry is always returned
NUM_DATA_native(value, index) == Label("NUM_DATA", value, 0)

\* NUM_DATA[value][index], value in 0..100
NUM_DATA(value, index) == Label("NUM_DATA", value, index)

HUNDRED == Pow10(2)

THOUSAND == Pow10(3)

LAKH == Pow10(5)

CRORE == Pow10(7)

\* keys of UNITS
UNITS_KEYS == {HUNDRED, THOUSAND, LAKH, CRORE}

UNITS(unit, index) == Label("UNITS", unit, index)

\* faulty variant: the table starts at 10^3
BARNABODHA_UNITS_KEYS_from_thousand == [i \in 1..15 |-> Pow10(i + 2)]

\* keys of BARNABODHA_UNITS in the order of the dict: 10^2 .. 10^17
BARNABODHA_UNITS_KEYS == [i \in 1..16 |-> Pow10(i + 1)]

BARNABODHA_UNITS(unit, index) == Label("BARNABODHA_UNITS", unit, index)

DASHAMIK(index) == Label("DASHAMIK", <<>>, index)

----------------------------------------------------------------------------
(* internal_utils.py                                                       *)

\* faulty variant: the phonetic flag wins over the casual one
_resolve_language_index_roman_first(roman, odilish) ==
    IF roman THEN 1 ELSE IF odilish THEN 2 ELSE 0

_resolve_language_index(roman, odilish) ==
    IF odilish THEN 2 ELSE IF roman THEN 1 ELSE 0

\* digits after the point kept by format(num_float, ".10f")
FRAC_PRECISION == 10

\* faulty variant: the digits after the kept ones are cut off, no rounding
fixed_point_digits_truncating(ip, frac) ==
    IF Len(frac) <= FRAC_PRECISION
    THEN <<ip, frac \o Zeros(FRAC_PRECISION - Len(frac))>>
    ELSE <<ip, SubSeq(frac, 1, FRAC_PRECISION)>>

\* the digits format(.., ".10f") writes before and after the point: the value
\* rounded to FRAC_PRECISION fractional digits.  A value exactly half way
\* between two results is decided by the binary value of the float; the
\* explored inputs are never half way.
fixed_point_digits(ip, frac) ==
    IF Len(frac) <= FRAC_PRECISION
    THEN <<ip, frac \o Zeros(FRAC_PRECISION - Len(frac))>>
    ELSE IF frac[FRAC_PRECISION + 1] < 5
    THEN <<ip, SubSeq(frac, 1, FRAC_PRECISION)>>
    ELSE LET all == Succ(ip \o SubSeq(frac, 1, FRAC_PRECISION))
         IN  <<SubSeq(all, 1, Len(all) - FRAC_PRECISION),
               SubSeq(all, Len(all) - FRAC_PRECISION + 1, Len(all))>>

\* format(num_float, ".10f")
format10f(f) ==
    CASE f.form = "nan" -> <<"n", "a", "n">>
      [] f.form = "inf" -> (IF f.neg THEN <<"-">> ELSE <<>>) \o <<"i", "n", "f">>
      [] OTHER ->
            LET parts == fixed_point_digits(f.ip, f.frac)
            IN  (IF f.neg THEN <<"-">> ELSE <<>>)
                \o DigitChars(parts[1]) \o <<".">> \o DigitChars(parts[2])

\* num_float == int(num_float), for a finite float
IsIntegral(f) == AllZero(f.frac)

\* the try block of _validate_and_format after its first line, num_float
\* being what float(number) returned or raised
_validate_and_format_try(num_float) ==
    IF num_float.exc # "none" THEN num_float
    ELSE IF LessThanZero(num_float.val) THEN Raise("ValueError")
    ELSE IF int(num_float.val).exc # "none" THEN int(num_float.val)
    ELSE IF IsIntegral(num_float.val) THEN Ok(str(int(num_float.val).val))
    ELSE Ok(rstrip(rstrip(format10f(num_float.val), "0"), "."))

\* except (TypeError, ValueError): raise TypeError
_validate_and_format_except(r) ==
    IF r.exc \in {"TypeError", "ValueError"} THEN Raise("TypeError") ELSE r

_validate_and_format(x) == _validate_and_format_except(_validate_and_format_try(float(x)))

----------------------------------------------------------------------------
(* Strings of label symbols                                                *)

\* faulty variant: the composed string is returned as it is
strip_nothing(s) == s

\* s.strip(): the only whitespace of a string of labels is SP
strip(s) == lstrip(rstrip(s, SP), SP)

RECURSIVE join(_, _)
\* sep.join(parts)
join(sep, parts) ==
    IF Len(parts) = 0 THEN <<>>
    ELSE IF Len(parts) = 1 THEN parts[1]
    ELSE parts[1] \o sep \o join(sep, Tail(parts))

\* int(s) for a string of decimal digits
ParseInt(s) == Norm(CharDigits(s))

RECURSIVE FirstUnitAtMost(_, _, _)
\* for unit in units: if value >= unit: ...   the position of the first unit,
\* from position i on, that value reaches; 0 when the loop falls through
FirstUnitAtMost(value, units, i) ==
    IF i > Len(units) THEN 0
    ELSE IF GE(value, units[i]) THEN i
    ELSE FirstUnitAtMost(value, units, i + 1)

----------------------------------------------------------------------------
(* cardinal_converter.py                                                   *)

\* faulty variant: the units are tried in ascending order
MODERN_UNITS_ascending == <<THOUSAND, LAKH, CRORE>>

\* the tuple the loop of to_odia_words runs over
MODERN_UNITS == <<CRORE, LAKH, THOUSAND>>

\* value <= 100
IsTabulated(value) == GE(HUNDRED, value)

\* faulty variant: the fractional part is read as one number
fractional_words_as_number(fractional_part, index) ==
    <<NUM_DATA(ParseInt(fractional_part), index)>>

\* [NUM_DATA[int(digit)][index] for digit in fractional_part]
fractional_words(fractional_part, index) ==
    [i \in 1..Len(fractional_part) |->
        NUM_DATA(<<CharDigit(fractional_part[i])>>, index)]

RECURSIVE to_odia_words(_, _, _)

\* faulty variant: the remainder is converted and appended even when it is zero
_format_compound_number_always_suffix(n, divisor, unit_label, roman, odilish) ==
    LET prefix == to_odia_words(PyInt(FALSE, FloorDiv(n, divisor)), roman, odilish)
        suffix == to_odia_words(PyInt(FALSE, Mod(n, divisor)), roman, odilish)
    IN  Ok(prefix.val \o <<SP>> \o unit_label \o <<SP>> \o suffix.val)

_format_compound_number(n, divisor, unit_label, roman, odilish) ==
    LET quotient == FloorDiv(n, divisor)
        remainder == Mod(n, divisor)
        prefix == to_odia_words(PyInt(FALSE, quotient), roman, odilish)
    IN  IF prefix.exc # "none" THEN prefix
        ELSE IF remainder = ZERO THEN Ok(prefix.val \o <<SP>> \o unit_label)
        ELSE LET suffix == to_odia_words(PyInt(FALSE, remainder), roman, odilish)
             IN  IF suffix.exc # "none" THEN suffix
                 ELSE Ok(prefix.val \o <<SP>> \o unit_label \o <<SP>> \o suffix.val)

\* the hundreds block of to_odia_words, value in 101..999
hundreds_block(value, index, roman, odilish) ==
    LET hundreds == FloorDiv(value, HUNDRED)
        remainder == Mod(value, HUNDRED)
    IN  IF remainder = ZERO /\ hundreds = <<1>> THEN Ok(NUM_DATA(HUNDRED, index))
        ELSE LET prefix == to_odia_words(PyInt(FALSE, hundreds), roman, odilish)
                 suffix == IF remainder # ZERO
                           THEN to_odia_words(PyInt(FALSE, remainder), roman, odilish)
                           ELSE Ok(<<>>)
             IN  IF prefix.exc # "none" THEN prefix
                 ELSE IF suffix.exc # "none" THEN suffix
                 ELSE Ok(strip(prefix.val \o <<SP>> \o UNITS(HUNDRED, index)
                               \o <<SP>> \o suffix.val))

to_odia_words(x, roman, odilish) ==
    LET checked == _validate_and_format(x)
    IN  IF checked.exc # "none" THEN checked
        ELSE
        LET num_str == checked.val
            index == _resolve_language_index(roman, odilish)
            dot == DotAt(num_str)
        IN  IF dot > 0
            THEN LET integer_part == SubSeq(num_str, 1, dot - 1)
                     fractional_part == SubSeq(num_str, dot + 1, Len(num_str))
                     integer_words ==
                         to_odia_words(PyInt(FALSE, ParseInt(integer_part)), roman, odilish)
                 IN  IF integer_words.exc # "none" THEN integer_words
                     ELSE Ok(integer_words.val \o <<SP>> \o DASHAMIK(index) \o <<SP>>
                             \o join(<<SP>>, fractional_words(fractional_part, index)))
            ELSE LET value == ParseInt(num_str)
                     u == FirstUnitAtMost(value, MODERN_UNITS, 1)
                 IN  IF IsTabulated(value) THEN Ok(NUM_DATA(value, index))
                     ELSE IF u > 0
                     THEN _format_compound_number(value, MODERN_UNITS[u],
                              UNITS(MODERN_UNITS[u], index), roman, odilish)
                     ELSE hundreds_block(value, index, roman, odilish)

----------------------------------------------------------------------------
(* classical_converter.py                                                  *)

RECURSIVE sorted_reverse(_)
\* sorted(keys, reverse=True)
sorted_reverse(keys) ==
    IF Len(keys) = 0 THEN <<>>
    ELSE LET m == CHOOSE i \in 1..Len(keys) : \A j \in 1..Len(keys) : GE(keys[i], keys[j])
         IN  <<keys[m]>> \o sorted_reverse(SubSeq(keys, 1, m - 1)
                                           \o SubSeq(keys, m + 1, Len(keys)))

\* faulty variant: the keys are left in the order of the dict
_SORTED_BARNABODHA_KEYS_unsorted == BARNABODHA_UNITS_KEYS

_SORTED_BARNABODHA_KEYS == sorted_reverse(BARNABODHA_UNITS_KEYS)

RECURSIVE to_odia_barnabodha_words(_, _, _)

\* the body of the loop over _SORTED_BARNABODHA_KEYS, for the selected unit
barnabodha_step(value, unit_value, index, roman, odilish) ==
    LET quotient == FloorDiv(value, unit_value)
        remainder == Mod(value, unit_value)
        unit_label == BARNABODHA_UNITS(unit_value, index)
        prefix == to_odia_barnabodha_words(PyInt(FALSE, quotient), roman, odilish)
    IN  IF prefix.exc # "none" THEN prefix
        ELSE IF remainder = ZERO THEN Ok(prefix.val \o <<SP>> \o unit_label)
        ELSE LET suffix ==
                     to_odia_barnabodha_words(PyInt(FALSE, remainder), roman, odilish)
             IN  IF suffix.exc # "none" THEN suffix
                 ELSE Ok(prefix.val \o <<SP>> \o unit_label \o <<SP>> \o suffix.val)

to_odia_barnabodha_words(x, roman, odilish) ==
    LET checked == _validate_and_format(x)
    IN  IF checked.exc # "none" THEN checked
        ELSE
        LET num_str == checked.val
            index == _resolve_language_index(roman, odilish)
            dot == DotAt(num_str)
        IN  IF dot > 0
            THEN LET integer_part == SubSeq(num_str, 1, dot - 1)
                     fractional_part == SubSeq(num_str, dot + 1, Len(num_str))
                     integer_words ==
                         to_odia_barnabodha_words(PyInt(FALSE, ParseInt(integer_part)),
                                                  roman, odilish)
                 IN  IF integer_words.exc # "none" THEN integer_words
                     ELSE Ok(integer_words.val \o <<SP>> \o DASHAMIK(index) \o <<SP>>
                             \o join(<<SP>>, fractional_words(fractional_part, index)))
            ELSE LET value == ParseInt(num_str)
                     u == FirstUnitAtMost(value, _SORTED_BARNABODHA_KEYS, 1)
                 IN  IF IsTabulated(value) THEN Ok(NUM_DATA(value, index))
                     ELSE IF u > 0
                     THEN barnabodha_step(value, _SORTED_BARNABODHA_KEYS[u], index,
                                          roman, odilish)
                     ELSE Raise("KeyError")

----------------------------------------------------------------------------
(* digit_formatter.py                                                      *)

\* ODIA_DIGITS.get(ch, ch)
ODIA_DIGITS_get(ch) == IF IsDigitChar(ch) THEN ODIA_DIGIT_CHARS[CharDigit(ch) + 1] ELSE ch

\* faulty variant: the table is read in the reverse order
ENG_DIGITS_get_reversed(ch) == IF IsOdiaDigit(ch) THEN DigitChar(9 - OdiaDigitValue(ch)) ELSE ch

\* ENG_DIGITS.get(ch, ch), ENG_DIGITS the inverse of ODIA_DIGITS
ENG_DIGITS_get(ch) == IF IsOdiaDigit(ch) THEN DigitChar(OdiaDigitValue(ch)) ELSE ch

to_odia_digits(x) ==
    LET checked == _validate_and_format(x)
    IN  IF checked.exc # "none" THEN checked
        ELSE Ok([i \in 1..Len(checked.val) |-> ODIA_DIGITS_get(checked.val[i])])

\* s.replace(",", "")
remove_commas(s) == SelectSeq(s, LAMBDA c : c # ",")

\* "".join(ENG_DIGITS.get(ch, ch) for ch in clean_value)
english_value_of(clean_value) ==
    [i \in 1..Len(clean_value) |-> ENG_DIGITS_get(clean_value[i])]

\* float(..) if "." in english_value else int(..), of the numeral read
number_of(dotted, numeral) == IF dotted THEN float(numeral) ELSE int(numeral)

\* except ValueError: raise ValueError
reraise_ValueError(parsed) == IF parsed.exc = "ValueError" THEN Raise("ValueError") ELSE parsed

parse_english_value(english_value) ==
    reraise_ValueError(number_of(DotAt(english_value) # 0, Numeral(english_value)))

\* faulty variant: the grouping commas are left in the string
to_english_number_keeping_commas(number_str) ==
    parse_english_value(english_value_of(number_str))

\* to_english_number of a str, given by its characters
to_english_number(number_str) ==
    parse_english_value(english_value_of(remove_commas(number_str)))

\* internal_utils._to_english_numeric
_to_english_numeric(x) ==
    IF x.type = "str"
    THEN LET converted == to_english_number(Spelling(x))
         IN  IF converted.exc \in {"ValueError", "TypeError"} THEN Ok(x) ELSE converted
    ELSE Ok(x)

\* the part of num_str before the point, the whole when there is none
integer_part_of(num_str, dot) == IF dot = 0 THEN num_str ELSE SubSeq(num_str, 1, dot - 1)

\* the part after the point, "" when there is none
fractional_part_of(num_str, dot) ==
    IF dot = 0 THEN <<>> ELSE SubSeq(num_str, dot + 1, Len(num_str))

RECURSIVE groups_upto(_, _)
\* [remaining[max(i - 2, 0) : i] for i in range(len(remaining), 0, -2)][::-1]
\* up to i: the slices come out right to left and the list is reversed
groups_upto(remaining, i) ==
    IF i <= 0 THEN <<>>
    ELSE groups_upto(remaining, i - 2)
         \o <<SubSeq(remaining, (IF i - 2 > 0 THEN i - 2 ELSE 0) + 1, i)>>

\* faulty variant: groups of three digits throughout
group_digits_by_threes(integer_part, n) ==
    IF n <= 3 THEN integer_part
    ELSE join(<<",">>,
              [k \in 1..((n + 2) \div 3) |->
                  SubSeq(integer_part,
                         IF n - 3 * ((n + 2) \div 3 - k) - 2 > 1
                         THEN n - 3 * ((n + 2) \div 3 - k) - 2 ELSE 1,
                         n - 3 * ((n + 2) \div 3 - k))])

\* formatted, for an integer part of n characters
group_digits(integer_part, n) ==
    IF n <= 3 THEN integer_part
    ELSE join(<<",">>,
              groups_upto(SubSeq(integer_part, 1, n - 3), n - 3)
              \o <<SubSeq(integer_part, n - 2, n)>>)

\* f"{formatted}.{fractional_part}" if fractional_part else formatted
with_fraction(formatted, fractional_part) ==
    IF fractional_part # <<>> THEN formatted \o <<".">> \o fractional_part ELSE formatted

\* the digits made Odia when use_odia is set
in_script(result_str, use_odia) ==
    IF use_odia THEN [i \in 1..Len(result_str) |-> ODIA_DIGITS_get(result_str[i])]
    ELSE result_str

format_num_str(num_str, dot, use_odia) ==
    in_script(with_fraction(group_digits(integer_part_of(num_str, dot),
                                         Len(integer_part_of(num_str, dot))),
                            fractional_part_of(num_str, dot)),
              use_odia)

format_checked(checked, use_odia) ==
    IF checked.exc # "none" THEN checked
    ELSE Ok(format_num_str(checked.val, DotAt(checked.val), use_odia))

format_indian_style(x, use_odia) == format_checked(_validate_and_format(x), use_odia)

----------------------------------------------------------------------------
(* ordinal_converter.py                                                    *)

MA == <<"U+0B2E">>

YA == <<"U+0B5F">>

RTHA == <<"U+0B30", "U+0B4D", "U+0B25">>

SHTHA == <<"U+0B37", "U+0B4D", "U+0B20">>

SHA == <<"U+0B36">>

\* ORDINAL_NUMERIC_SUFFIXES, keys 1..10
ORDINAL_NUMERIC_SUFFIXES == <<MA, YA, YA, RTHA, MA, SHTHA, MA, MA, MA, MA>>

ORDINAL_NUMERIC_TEENS_SUFFIX == SHA

ORDINAL_NUMERIC_DEFAULT == MA

\* faulty variant: only the entries 1..20 are looked up
ORDINAL_DATA_KEYS_to_twenty == {Dec(i) : i \in 1..20}

\* keys of ORDINAL_DATA
ORDINAL_DATA_KEYS ==
    {Dec(i) : i \in 1..20} \cup {Dec(10 * i) : i \in 3..10} \cup {THOUSAND, LAKH, CRORE}

ORDINAL_DATA(value, index) == Label("ORDINAL_DATA", value, index)

ORDINAL_SUFFIX(index) == Label("ORDINAL_SUFFIX", <<>>, index)

\* val % 10 for a signed int (the result has the sign of the divisor)
last_digit_of(val) ==
    LET d == val.ip[Len(val.ip)]
    IN  IF val.neg THEN (10 - d) % 10 ELSE d

\* ORDINAL_NUMERIC_SUFFIXES.get(key, default), key a signed int
ORDINAL_NUMERIC_SUFFIXES_get(key, default) ==
    IF ~key.neg /\ GE(key.ip, <<1>>) /\ GE(<<1, 0>>, key.ip)
    THEN ORDINAL_NUMERIC_SUFFIXES[ToInt(key.ip)]
    ELSE default

\* int(util._to_english_numeric(number)) inside try/except (ValueError,
\* TypeError) raising ValueError
ordinal_value(x) ==
    LET numeric == _to_english_numeric(x)
        val == IF numeric.exc # "none" THEN numeric ELSE int(numeric.val)
    IN  IF val.exc \in {"ValueError", "TypeError"} THEN Raise("ValueError") ELSE val

\* faulty variant: the values 11..18 are given the affix of their last digit
to_odia_ordinal_numeral_without_teens(x) ==
    LET parsed == ordinal_value(x)
    IN  IF parsed.exc # "none" THEN parsed
        ELSE
        LET val == parsed.val
            suffix ==
                ORDINAL_NUMERIC_SUFFIXES_get(val,
                    ORDINAL_NUMERIC_SUFFIXES_get(
                        PyInt(FALSE, <<last_digit_of(val)>>), ORDINAL_NUMERIC_DEFAULT))
            odia_number == to_odia_digits(val)
        IN  IF odia_number.exc # "none" THEN odia_number
            ELSE Ok(odia_number.val \o suffix)

\* the text given is a numeral without a trailing st/nd/rd/th, which the
\* re.sub of the first lines leaves as it is
to_odia_ordinal_numeral(x) ==
    LET parsed == ordinal_value(x)
    IN  IF parsed.exc # "none" THEN parsed
        ELSE
        LET val == parsed.val
            suffix ==
                IF ~val.neg /\ GE(val.ip, <<1, 1>>) /\ GE(<<1, 8>>, val.ip)
                THEN ORDINAL_NUMERIC_TEENS_SUFFIX
                ELSE ORDINAL_NUMERIC_SUFFIXES_get(val,
                        ORDINAL_NUMERIC_SUFFIXES_get(
                            PyInt(FALSE, <<last_digit_of(val)>>), ORDINAL_NUMERIC_DEFAULT))
            odia_number == to_odia_digits(val)
        IN  IF odia_number.exc # "none" THEN odia_number
            ELSE Ok(odia_number.val \o suffix)

\* the markers of the pattern (st|nd|rd|th)
ENGLISH_MARKERS == {<<"s", "t">>, <<"n", "d">>, <<"r", "d">>, <<"t", "h">>}

\* the letters of the markers in the other case (re.IGNORECASE)
lower(c) ==
    CASE c = "S" -> "s" [] c = "T" -> "t" [] c = "N" -> "n" [] c = "D" -> "d"
      [] c = "R" -> "r" [] c = "H" -> "h" [] OTHER -> c

\* faulty variant: only "th" is taken off
without_english_marker_th_only(s) ==
    IF Len(s) >= 2 /\ <<lower(s[Len(s) - 1]), lower(s[Len(s)])>> = <<"t", "h">>
    THEN SubSeq(s, 1, Len(s) - 2)
    ELSE s

\* re.sub(r"(st|nd|rd|th)$", "", number, flags=re.IGNORECASE)
without_english_marker(s) ==
    IF Len(s) >= 2 /\ <<lower(s[Len(s) - 1]), lower(s[Len(s)])>> \in ENGLISH_MARKERS
    THEN SubSeq(s, 1, Len(s) - 2)
    ELSE s

\* to_odia_ordinal_numeral of a str, given by its characters
to_odia_ordinal_numeral_of_str(s) == to_odia_ordinal_numeral(Numeral(without_english_marker(s)))

to_odia_ordinal_words(x, roman, odilish) ==
    LET parsed == ordinal_value(x)
    IN  IF parsed.exc # "none" THEN parsed
        ELSE IF parsed.val.neg THEN Raise("ValueError")
        ELSE
        LET val == parsed.val
            index == _resolve_language_index(roman, odilish)
            base_cardinal == to_odia_words(val, roman, odilish)
        IN  IF val.ip \in ORDINAL_DATA_KEYS THEN Ok(ORDINAL_DATA(val.ip, index))
            ELSE IF base_cardinal.exc # "none" THEN base_cardinal
            ELSE Ok(base_cardinal.val \o ORDINAL_SUFFIX(index))

\* the characters of the first group of the pattern: [U+0B66-U+0B6F,.]
IsOrdinalDigitsChar(c) == IsOdiaDigit(c) \/ c \in {",", "."}

\* the characters of the second group of the pattern
ORDINAL_AFFIX_CHARS ==
    {"U+0B2E", "U+0B5F", "U+0B30", "U+0B4D", "U+0B25", "U+0B37", "U+0B20", "U+0B36"}

RECURSIVE ordinal_digits_span(_)
\* the length of the longest prefix of s made of characters of the first group
ordinal_digits_span(s) ==
    IF s # <<>> /\ IsOrdinalDigitsChar(s[1]) THEN 1 + ordinal_digits_span(Tail(s)) ELSE 0

\* what follows the first group: blanks, then characters of the second group
\* up to the end
IsAffixTail(rest) == \A i \in 1..Len(rest) : rest[i] \in ORDINAL_AFFIX_CHARS

\* re.match(r"^([digits,.]+)\s*([affix]*)$", s) and match.group(1); the three
\* character classes are disjoint, so the first group is the longest prefix
\* of its class
match_odia_ordinal(s, span) ==
    IF span >= 1 /\ IsAffixTail(lstrip(SubSeq(s, span + 1, Len(s)), " "))
    THEN Ok(SubSeq(s, 1, span))
    ELSE Raise("ValueError")

\* faulty variant: the suffix is chosen by the last digit alone
english_suffix_by_last_digit(val) ==
    CASE val.ip[Len(val.ip)] = 1 -> <<"s", "t">>
      [] val.ip[Len(val.ip)] = 2 -> <<"n", "d">>
      [] val.ip[Len(val.ip)] = 3 -> <<"r", "d">>
      [] OTHER -> <<"t", "h">>

\* the English suffix of a non-negative int
english_suffix(val) ==
    IF ToInt(Mod(val.ip, HUNDRED)) \in 11..13 THEN <<"t", "h">>
    ELSE CASE val.ip[Len(val.ip)] = 1 -> <<"s", "t">>
           [] val.ip[Len(val.ip)] = 2 -> <<"n", "d">>
           [] val.ip[Len(val.ip)] = 3 -> <<"r", "d">>
           [] OTHER -> <<"t", "h">>

\* int(..) of the converted digits, inside try/except (ValueError, TypeError)
\* raising ValueError
ordinal_digits_value(converted) ==
    IF converted.exc \in {"ValueError", "TypeError"} THEN Raise("ValueError")
    ELSE IF converted.exc # "none" THEN converted
    ELSE int(converted.val)

\* f"{val}{suffix}"
format_english_ordinal(val) ==
    IF val.exc # "none" THEN val ELSE Ok(str(val.val) \o english_suffix(val.val))

english_ordinal_of_match(match) ==
    IF match.exc # "none" THEN match
    ELSE format_english_ordinal(ordinal_digits_value(to_english_number(match.val)))

english_ordinal_of_stripped(s) ==
    english_ordinal_of_match(match_odia_ordinal(s, ordinal_digits_span(s)))

\* to_english_ordinal_numeral of a str, given by its characters
to_english_ordinal_numeral(odia_ordinal) ==
    english_ordinal_of_stripped(text_strip(odia_ordinal))

----------------------------------------------------------------------------
(* text_processor.py                                                       *)

\* the class [U+0B66-U+0B6F,.] of ODIA_NUM_PATTERN
IsOdiaNumChar(c) == IsOdiaDigit(c) \/ c \in {",", "."}

RECURSIVE odia_run_end(_, _)
\* the last position of the run of characters of the class that follows
\* position i (i itself when none follows): where the greedy * stops
odia_run_end(s, i) ==
    IF i < Len(s) /\ IsOdiaNumChar(s[i + 1]) THEN odia_run_end(s, i + 1) ELSE i

\* faulty variant: the match keeps the separators that end the run
odia_match_end_greedy(s, i, run_end) == run_end

\* the end of the match that starts at the Odia digit s[i]: the pattern must
\* end in an Odia digit, so the greedy run is given back down to its last
\* Odia digit; the second alternative, the digit alone, is what is left when
\* the run holds no other digit
odia_match_end(s, i, run_end) ==
    CHOOSE j \in i..run_end :
        IsOdiaDigit(s[j]) /\ \A k \in (j + 1)..run_end : ~IsOdiaDigit(s[k])

RECURSIVE findall_from(_, _), findall_match(_, _, _)
\* the matches of ODIA_NUM_PATTERN from position i on, left to right, none
\* overlapping
findall_from(s, i) ==
    IF i > Len(s) THEN <<>>
    ELSE IF IsOdiaDigit(s[i]) THEN findall_match(s, i, odia_match_end(s, i, odia_run_end(s, i)))
    ELSE findall_from(s, i + 1)

findall_match(s, i, j) == <<SubSeq(s, i, j)>> \o findall_from(s, j + 1)

\* re.findall(ODIA_NUM_PATTERN, text)
findall_ODIA_NUM_PATTERN(s) == findall_from(s, 1)

\* faulty variant: a failed conversion ends the call with the error
append_converted_or_raise(converted, rest) ==
    IF rest.exc # "none" THEN rest
    ELSE IF converted.exc # "none" THEN converted
    ELSE Ok(<<converted.val>> \o rest.val)

\* results.append(to_english_number(match)), or continue on ValueError and
\* TypeError; rest is the outcome of the later turns of the loop
append_converted(converted, rest) ==
    IF converted.exc \in {"ValueError", "TypeError"} THEN rest
    ELSE IF converted.exc # "none" THEN converted
    ELSE IF rest.exc # "none" THEN rest
    ELSE Ok(<<converted.val>> \o rest.val)

RECURSIVE convert_matches(_)
\* the loop over the matches
convert_matches(matches) ==
    IF matches = <<>> THEN Ok(<<>>)
    ELSE append_converted(to_english_number(Head(matches)), convert_matches(Tail(matches)))

extract_odia_numbers(s, english) ==
    IF ~english THEN Ok(findall_ODIA_NUM_PATTERN(s))
    ELSE convert_matches(findall_ODIA_NUM_PATTERN(s))

\* the digits of ODIA_NUM_PATTERN (odia) or of ENG_NUM_PATTERN
IsPatternDigit(c, odia) == IF odia THEN IsOdiaDigit(c) ELSE IsDigitChar(c)

RECURSIVE pattern_run_end(_, _, _)
\* where the greedy [digits,.]* that follows position i stops
pattern_run_end(s, i, odia) ==
    IF i < Len(s) /\ (IsPatternDigit(s[i + 1], odia) \/ s[i + 1] \in {",", "."})
    THEN pattern_run_end(s, i + 1, odia)
    ELSE i

\* the end of the match that starts at the digit s[i]: the run given back
\* down to its last digit
pattern_match_end(s, i, run_end, odia) ==
    CHOOSE j \in i..run_end :
        IsPatternDigit(s[j], odia) /\ \A k \in (j + 1)..run_end : ~IsPatternDigit(s[k], odia)

RECURSIVE leading_zeros(_)
leading_zeros(frac) ==
    IF frac # <<>> /\ Head(frac) = 0 THEN 1 + leading_zeros(Tail(frac)) ELSE 0

\* d[.ddd]e-XX
exponent_form(digits, exponent) ==
    <<Head(digits)>> \o (IF Len(digits) > 1 THEN <<".">> \o Tail(digits) ELSE <<>>)
    \o <<"e", "-">> \o (IF exponent < 10 THEN <<"0">> ELSE <<>>) \o DigitChars(Dec(exponent))

\* the fraction of a float without the zeros that end it
shortest_fraction(frac) ==
    IF AllZero(frac) THEN <<>>
    ELSE SubSeq(frac, 1, CHOOSE k \in 1..Len(frac) :
                            frac[k] # 0 /\ \A l \in (k + 1)..Len(frac) : frac[l] = 0)

\* the digits str gives a float below 10^16 with these integer digits and
\* these fraction digits: positional, or with an exponent below 10^-4
float_digits(ip, frac, zeros) ==
    IF AllZero(ip) /\ zeros >= 4
    THEN exponent_form(DigitChars(SubSeq(frac, zeros + 1, Len(frac))), zeros + 1)
    ELSE DigitChars(ip) \o <<".">> \o (IF frac = <<>> THEN <<"0">> ELSE DigitChars(frac))

float_repr(ip, frac) == float_digits(ip, frac, leading_zeros(frac))

\* str(f) for a finite float f: the shortest digits that read back as f
str_float(f) ==
    (IF f.neg THEN <<"-">> ELSE <<>>) \o float_repr(f.ip, shortest_fraction(f.frac))

\* str(v) for an int or a float
str_number(v) == IF v.type = "float" THEN str_float(v) ELSE str(v)

\* the token, or what str makes of its conversion
token_or_str(token, converted) ==
    IF converted.exc \in {"ValueError", "TypeError"} THEN Ok(token)
    ELSE IF converted.exc # "none" THEN converted
    ELSE Ok(str_number(converted.val))

_odia_to_eng_callback(token) == token_or_str(token, to_english_number(token))

_eng_to_odia_callback(token) == to_odia_digits(Numeral(token))

\* the replacement of one match, an error of the callback ending the call
replacement(token, odia) ==
    IF odia THEN _odia_to_eng_callback(token) ELSE _eng_to_odia_callback(token)

\* the text built from one piece and the rest; the callbacks run left to
\* right, so the first error is the one raised
splice(piece, rest) ==
    IF piece.exc # "none" THEN piece
    ELSE IF rest.exc # "none" THEN rest
    ELSE Ok(piece.val \o rest.val)

RECURSIVE sub_from(_, _, _), sub_match(_, _, _, _)
\* re.sub(pattern, callback, s) from position i on
sub_from(s, i, odia) ==
    IF i > Len(s) THEN Ok(<<>>)
    ELSE IF IsPatternDigit(s[i], odia)
    THEN sub_match(s, i, pattern_match_end(s, i, pattern_run_end(s, i, odia), odia), odia)
    ELSE splice(Ok(<<s[i]>>), sub_from(s, i + 1, odia))

sub_match(s, i, j, odia) ==
    splice(replacement(SubSeq(s, i, j), odia), sub_from(s, j + 1, odia))

\* replace_numbers(text, to_english): ODIA_NUM_PATTERN is the one searched
\* when to_english is set
replace_numbers(s, english) == sub_from(s, 1, english)

----------------------------------------------------------------------------
(* currency_formatter.py                                                   *)

\* ("<tanka>", "<tanka, romanized>", "tanka")[index]
tanka_label(index) == Label("tanka_label", <<>>, index)

\* ("<paisa>", "paisa", "paisa")[index]: the two transliterations are the
\* same string
paisa_label(index) == Label("paisa_label", <<>>, IF index = 0 THEN 0 ELSE 1)

\* int((paisa_raw + "0")[:2]), and 0 for a numeral without a point
paisa_value_of(num_str, dot) ==
    IF dot = 0 THEN ZERO
    ELSE ParseInt(SubSeq(SubSeq(num_str, dot + 1, Len(num_str)) \o <<"0">>, 1, 2))

\* int(tanka_part)
tanka_value_of(num_str, dot) ==
    IF dot = 0 THEN ParseInt(num_str) ELSE ParseInt(SubSeq(num_str, 1, dot - 1))

converter(style, value, roman, odilish) ==
    IF style
    THEN to_odia_barnabodha_words(PyInt(FALSE, value), roman, odilish)
    ELSE to_odia_words(PyInt(FALSE, value), roman, odilish)

\* converter(paisa_value) if paisa_value > 0 else ""
paisa_words_of(style, paisa_value, roman, odilish) ==
    IF paisa_value # ZERO THEN converter(style, paisa_value, roman, odilish) ELSE Ok(<<>>)

\* the three returns under an if and the last return
currency_clauses(tanka_value, paisa_value, tanka_words, paisa_words, index) ==
    IF tanka_value = ZERO /\ paisa_value = ZERO
    THEN tanka_words \o <<SP>> \o tanka_label(index)
    ELSE IF tanka_value = ZERO /\ paisa_value # ZERO
    THEN paisa_words \o <<SP>> \o paisa_label(index)
    ELSE IF paisa_value # ZERO /\ paisa_value = ZERO
    THEN tanka_words \o <<SP>> \o tanka_label(index)
    ELSE tanka_words \o <<SP>> \o tanka_label(index) \o <<SP>> \o paisa_words
         \o <<SP>> \o paisa_label(index)

currency_of_words(tanka_value, paisa_value, tanka_words, paisa_words, index) ==
    IF tanka_words.exc # "none" THEN tanka_words
    ELSE IF paisa_words.exc # "none" THEN paisa_words
    ELSE Ok(currency_clauses(tanka_value, paisa_value, tanka_words.val, paisa_words.val, index))

currency_of_values(style, tanka_value, paisa_value, roman, odilish) ==
    currency_of_words(tanka_value, paisa_value,
                      converter(style, tanka_value, roman, odilish),
                      paisa_words_of(style, paisa_value, roman, odilish),
                      _resolve_language_index(roman, odilish))

currency_of_checked(checked, style, roman, odilish) ==
    IF checked.exc # "none" THEN checked
    ELSE currency_of_values(style,
                            tanka_value_of(checked.val, DotAt(checked.val)),
                            paisa_value_of(checked.val, DotAt(checked.val)),
                            roman, odilish)

to_odia_currency(x, style, roman, odilish) ==
    currency_of_checked(_validate_and_format(x), style, roman, odilish)

----------------------------------------------------------------------------
(* english_converter.py                                                    *)

\* ENG_NUMBER_WORDS[n], n in 1..100 ("one" .. "ninety-nine", "one hundred")
ENG_NUMBER_WORDS(n) == Label("ENG_NUMBER_WORDS", n, 0)

\* n in ENG_NUMBER_WORDS: the keys are 1..100, 0 is not among them
InEnglishWords(n) == n # ZERO /\ GE(HUNDRED, n)

\* ENG_NUMBER_WORDS[n]
english_word(n) == IF InEnglishWords(n) THEN Ok(ENG_NUMBER_WORDS(n)) ELSE Raise("KeyError")

\* the name of a unit, without a numeral: "thousand", "lakh", "crore"
UnitName(unit) == Label("LARGE_ENG_NUMBER_WORDS", unit, 0)

\* LARGE_ENG_NUMBER_WORDS[unit]: "one thousand", "one lakh", "one crore",
\* the word of 1, a blank and the name
LARGE_ENG_NUMBER_WORDS(unit) == ENG_NUMBER_WORDS(<<1>>) \o <<SP>> \o UnitName(unit)

\* sorted(LARGE_ENG_NUMBER_WORDS.keys(), reverse=True)
_SORTED_LARGE_NUMBER == <<CRORE, LAKH, THOUSAND>>

\* "hundred", "point" and "-" in the f-strings
HUNDRED_WORD == Label("hundred", <<>>, 0)

POINT_WORD == Label("point", <<>>, 0)

HYPHEN == Label("-", <<>>, 0)

RECURSIVE integer_to_words(_), unit_words(_, _), remaining_after_units(_, _)
\* the entries the loop over the units appends from the i-th unit on
unit_words(remaining_number, i) ==
    IF i > Len(_SORTED_LARGE_NUMBER) THEN <<>>
    ELSE IF GE(remaining_number, _SORTED_LARGE_NUMBER[i])
    THEN <<integer_to_words(FloorDiv(remaining_number, _SORTED_LARGE_NUMBER[i])).val
           \o <<SP>> \o LARGE_ENG_NUMBER_WORDS(_SORTED_LARGE_NUMBER[i])>>
         \o unit_words(Mod(remaining_number, _SORTED_LARGE_NUMBER[i]), i + 1)
    ELSE unit_words(remaining_number, i + 1)

\* remaining_number after the loop
remaining_after_units(remaining_number, i) ==
    IF i > Len(_SORTED_LARGE_NUMBER) THEN remaining_number
    ELSE IF GE(remaining_number, _SORTED_LARGE_NUMBER[i])
    THEN remaining_after_units(Mod(remaining_number, _SORTED_LARGE_NUMBER[i]), i + 1)
    ELSE remaining_after_units(remaining_number, i + 1)

\* the entry of the hundreds
hundred_words(remaining_number) ==
    IF GE(remaining_number, HUNDRED)
    THEN <<ENG_NUMBER_WORDS(FloorDiv(remaining_number, HUNDRED)) \o <<SP>> \o HUNDRED_WORD>>
    ELSE <<>>

\* the entry of what is left below 100
rest_words(remaining_number) ==
    IF remaining_number = ZERO THEN <<>>
    ELSE IF InEnglishWords(remaining_number) THEN <<ENG_NUMBER_WORDS(remaining_number)>>
    ELSE <<ENG_NUMBER_WORDS(Norm(<<remaining_number[1], 0>>)) \o HYPHEN
           \o ENG_NUMBER_WORDS(<<remaining_number[Len(remaining_number)]>>)>>

words_below_thousand(remaining_number) ==
    hundred_words(remaining_number)
    \o rest_words(IF GE(remaining_number, HUNDRED) THEN Mod(remaining_number, HUNDRED)
                  ELSE remaining_number)

integer_to_words(num) ==
    IF num = ZERO THEN english_word(ZERO)
    ELSE Ok(join(<<SP>>, unit_words(num, 1) \o words_below_thousand(remaining_after_units(num, 1))))

RECURSIVE decimal_digit_words(_)
\* [ENG_NUMBER_WORDS[int(digit)] for digit in decimal_part], or the KeyError
\* of the first digit 0
decimal_digit_words(decimal_part) ==
    IF decimal_part = <<>> THEN Ok(<<>>)
    ELSE IF english_word(<<CharDigit(decimal_part[1])>>).exc # "none"
    THEN english_word(<<CharDigit(decimal_part[1])>>)
    ELSE IF decimal_digit_words(Tail(decimal_part)).exc # "none"
    THEN decimal_digit_words(Tail(decimal_part))
    ELSE Ok(<<english_word(<<CharDigit(decimal_part[1])>>).val>>
            \o decimal_digit_words(Tail(decimal_part)).val)

decimal_digits_to_words(decimal_part) ==
    IF decimal_digit_words(decimal_part).exc # "none" THEN decimal_digit_words(decimal_part)
    ELSE Ok(join(<<SP>>, decimal_digit_words(decimal_part).val))

number_with_point(integer_words, decimal_words) ==
    IF integer_words.exc # "none" THEN integer_words
    ELSE IF decimal_words.exc # "none" THEN decimal_words
    ELSE Ok(integer_words.val \o <<SP>> \o POINT_WORD \o <<SP>> \o decimal_words.val)

number_to_words_of(value_str, dot) ==
    IF dot > 0
    THEN number_with_point(integer_to_words(ParseInt(SubSeq(value_str, 1, dot - 1))),
                           decimal_digits_to_words(SubSeq(value_str, dot + 1, Len(value_str))))
    ELSE integer_to_words(ParseInt(value_str))

number_to_words_checked(checked) ==
    IF checked.exc # "none" THEN checked ELSE number_to_words_of(checked.val, DotAt(checked.val))

number_to_words(x) == number_to_words_checked(_validate_and_format(x))

----------------------------------------------------------------------------
(* The inputs                                                              *)

\* q * 10^e + r as digits, for r < 10^e
Compose(q, e, r) == Dec(q) \o Zeros(e - Len(r)) \o r

\* remainders tried below 10^e
Remainders(e) ==
    {r \in {<<0>>, <<1>>, <<2, 5>>, <<1, 0, 0>>, <<1, 0, 1>>, Pow10(e - 1),
            [i \in 1..e |-> 9]} : Len(r) <= e}

\* 125000, an integer with two units and no hundreds
ExampleSamples == {<<1, 2, 5, 0, 0, 0>>}

IntegerSamples ==
    {Dec(n) : n \in 0..MaxSmall}
    \cup ExampleSamples
    \cup UNION {{Compose(q, e, r) : q \in 1..MaxQuot, r \in Remainders(e)} : e \in 3..MaxExp}

\* integer parts of the inputs that are given both signs, a fraction, and
\* as text as well as as a number
SignedSamples ==
    {Dec(n) : n \in {0, 1, 2, 5, 10, 11, 18, 21, 100, 125, 1000, 10000}}

\* digits of the fractional parts of more than one digit
FractionDigits == {0, 2, 5}

FractionSamples ==
    {<<>>} \cup {<<d>> : d \in Digit}
    \cup UNION {[1..k -> FractionDigits] : k \in 2..MaxFracLen}

NumberSamples ==
    {PyInt(FALSE, d) : d \in IntegerSamples}
    \cup {PyInt(neg, d) : neg \in BOOLEAN, d \in SignedSamples}
    \cup {PyFloat(neg, d, f) : neg \in BOOLEAN, d \in SignedSamples, f \in FractionSamples}
    \cup {PyStr(neg, d, f) : neg \in BOOLEAN, d \in SignedSamples, f \in FractionSamples}

\* fractional parts longer than FRAC_PRECISION digits: ten digits followed by
\* a tail that is never exactly one half of the last kept digit
LongFractions ==
    {head \o tail :
        head \in {Zeros(10), [i \in 1..10 |-> 9], <<2, 5>> \o Zeros(8),
                  <<1, 2, 3, 4, 5, 6, 7, 8, 9, 0>>, Zeros(9) \o <<9>>},
        tail \in {<<1>>, <<4>>, <<6>>, <<9>>, <<4, 9>>, <<5, 1>>}}

LongFractionSamples ==
    {PyFloat(neg, d, f) : neg \in BOOLEAN, d \in {<<0>>, <<1>>, <<9>>, <<9, 9>>},
                          f \in LongFractions}
    \cup {PyStr(neg, d, f) : neg \in BOOLEAN, d \in {<<0>>, <<1>>, <<9>>, <<9, 9>>},
                             f \in LongFractions}

SpecialSamples ==
    {Special("float", "nan", FALSE), Special("float", "inf", FALSE),
     Special("float", "inf", TRUE), Special("str", "nan", FALSE),
     Special("str", "inf", FALSE), Special("str", "inf", TRUE),
     Special("str", "bad", FALSE), Special("NoneType", "bad", FALSE)}

Inputs == NumberSamples \cup LongFractionSamples \cup SpecialSamples

\* the Odia digits of the natural number with digits d
OdiaNumeral(d) == [i \in 1..Len(d) |-> ODIA_DIGIT_CHARS[d[i] + 1]]

TextAlphabet == {"0", "1", "U+0B67", "U+0B68", ".", ",", "-", " ", "a"}

PlainTexts == UNION {[1..k -> TextAlphabet] : k \in 0..MaxTextLen}

\* words, blanks and numeral tokens of both scripts
Tokens ==
    {<<"a">>, <<" ">>, <<",">>, <<".">>, <<"1", "2">>, <<"1", ",", "2">>,
     OdiaNumeral(<<4>>), OdiaNumeral(<<4, 5, 6>>), OdiaNumeral(<<0, 7>>),
     <<"U+0B67", ",", "U+0B68">>, <<"U+0B67", ".", "U+0B6B">>,
     <<"U+0B67", ".", ".", "U+0B68">>}

RECURSIVE Concat(_)
Concat(parts) == IF parts = <<>> THEN <<>> ELSE Head(parts) \o Concat(Tail(parts))

TokenTexts == UNION {{Concat(ts) : ts \in [1..k -> Tokens]} : k \in 0..MaxTokens}

\* Odia numerals 0..MaxOrdinal, bare or followed by an affix, by two affixes
\* or by a letter, with and without a blank between
OrdinalTexts ==
    {OdiaNumeral(Dec(n)) \o blank \o affix :
        n \in 0..MaxOrdinal,
        blank \in {<<>>, <<" ">>},
        affix \in {<<>>, MA, YA, RTHA, SHA, MA \o SHA, <<"a">>}}

Texts == PlainTexts \cup TokenTexts \cup OrdinalTexts

----------------------------------------------------------------------------
(* The state machine: one call                                             *)

\* the argument of the call is a number (with the two register flags) or a
\* text
Init ==
    /\ op = "none"
    /\ result = Raise("none")
    /\ as_english = FALSE
    /\ to_english = FALSE
    /\ use_odia_digits = FALSE
    /\ barnabodha_style = FALSE
    /\ stack = <<>>
    /\ \/ /\ given = "number"
          /\ number \in Inputs
          /\ text = <<>>
          /\ as_roman \in BOOLEAN
          /\ as_odilish \in BOOLEAN
       \/ /\ given = "text"
          /\ text \in Texts
          /\ number = Numeral(text)
          /\ as_roman = FALSE
          /\ as_odilish = FALSE

\* a function is applied to the number
Call(name, outcome) ==
    /\ op = "none"
    /\ given = "number"
    /\ op' = name
    /\ result' = outcome
    /\ UNCHANGED <<given, number, text, as_roman, as_odilish, as_english, options, stack>>

\* a function is applied to the text
CallText(name, outcome) ==
    /\ op = "none"
    /\ given = "text"
    /\ op' = name
    /\ result' = outcome
    /\ UNCHANGED <<given, number, text, as_roman, as_odilish, as_english, options, stack>>

Call_resolve_language_index ==
    Call("_resolve_language_index", Ok(_resolve_language_index(as_roman, as_odilish)))

Call_validate_and_format ==
    Call("_validate_and_format", _validate_and_format(number))

Call_to_odia_words ==
    Call("to_odia_words", to_odia_words(number, as_roman, as_odilish))

Call_to_odia_barnabodha_words ==
    Call("to_odia_barnabodha_words", to_odia_barnabodha_words(number, as_roman, as_odilish))

\* to_odia_digits of a number, or of a text: float() is all the function
\* does with its argument, and float() reads the text as Numeral(text)
Call_to_odia_digits ==
    \/ Call("to_odia_digits", to_odia_digits(number))
    \/ CallText("to_odia_digits", to_odia_digits(Numeral(text)))

Call_to_english_number ==
    CallText("to_english_number", to_english_number(text))

\* to_english_number(to_odia_digits(number)): the returned digits are given
\* to the inverse conversion
Call_to_english_number_of_digits ==
    /\ op = "to_odia_digits"
    /\ given = "number"
    /\ result.exc = "none"
    /\ op' = "to_english_number(to_odia_digits)"
    /\ text' = result.val
    /\ result' = to_english_number(result.val)
    /\ UNCHANGED <<given, number, as_roman, as_odilish, as_english, options, stack>>

\* to_english_ordinal_numeral(to_odia_ordinal_numeral(number)): the returned
\* ordinal is given to the inverse conversion
Call_to_english_ordinal_numeral_of_ordinal ==
    /\ op = "to_odia_ordinal_numeral"
    /\ given = "number"
    /\ result.exc = "none"
    /\ op' = "to_english_ordinal_numeral(to_odia_ordinal_numeral)"
    /\ text' = result.val
    /\ result' = to_english_ordinal_numeral(result.val)
    /\ UNCHANGED <<given, number, as_roman, as_odilish, as_english, options, stack>>

\* the English ordinal that came back is given to to_odia_ordinal_numeral
Call_to_odia_ordinal_numeral_of_english ==
    /\ op = "to_english_ordinal_numeral(to_odia_ordinal_numeral)"
    /\ given = "number"
    /\ result.exc = "none"
    /\ op' = "to_odia_ordinal_numeral(to_english_ordinal_numeral(to_odia_ordinal_numeral))"
    /\ text' = result.val
    /\ result' = to_odia_ordinal_numeral_of_str(result.val)
    /\ UNCHANGED <<given, number, as_roman, as_odilish, as_english, options, stack>>

Call_to_english_ordinal_numeral ==
    CallText("to_english_ordinal_numeral", to_english_ordinal_numeral(text))

Call_extract_odia_numbers ==
    \E english \in BOOLEAN :
        /\ op = "none"
        /\ given = "text"
        /\ op' = "extract_odia_numbers"
        /\ as_english' = english
        /\ result' = extract_odia_numbers(text, english)
        /\ UNCHANGED <<given, number, text, as_roman, as_odilish, options, stack>>

Call_format_indian_style ==
    \E odia \in BOOLEAN :
        /\ op = "none"
        /\ given = "number"
        /\ op' = "format_indian_style"
        /\ use_odia_digits' = odia
        /\ result' = format_indian_style(number, odia)
        /\ UNCHANGED <<given, number, text, as_roman, as_odilish, as_english,
                       to_english, barnabodha_style, stack>>

Call_to_odia_currency ==
    \E style \in BOOLEAN :
        /\ op = "none"
        /\ given = "number"
        /\ op' = "to_odia_currency"
        /\ barnabodha_style' = style
        /\ result' = to_odia_currency(number, style, as_roman, as_odilish)
        /\ UNCHANGED <<given, number, text, as_roman, as_odilish, as_english,
                       to_english, use_odia_digits, stack>>

Call_number_to_words ==
    Call("number_to_words", number_to_words(number))

Call_replace_numbers ==
    \E english \in BOOLEAN :
        /\ op = "none"
        /\ given = "text"
        /\ op' = "replace_numbers"
        /\ to_english' = english
        /\ result' = replace_numbers(text, english)
        /\ UNCHANGED <<given, number, text, as_roman, as_odilish, as_english,
                       use_odia_digits, barnabodha_style, stack>>

Call_to_odia_ordinal_numeral ==
    Call("to_odia_ordinal_numeral", to_odia_ordinal_numeral(number))

Call_to_odia_ordinal_words ==
    Call("to_odia_ordinal_words", to_odia_ordinal_words(number, as_roman, as_odilish))

Next ==
    \/ Call_resolve_language_index
    \/ Call_validate_and_format
    \/ Call_to_odia_words
    \/ Call_to_odia_barnabodha_words
    \/ Call_to_odia_digits
    \/ Call_to_english_number
    \/ Call_to_english_number_of_digits
    \/ Call_to_english_ordinal_numeral
    \/ Call_to_english_ordinal_numeral_of_ordinal
    \/ Call_to_odia_ordinal_numeral_of_english
    \/ Call_extract_odia_numbers
    \/ Call_replace_numbers
    \/ Call_format_indian_style
    \/ Call_to_odia_currency
    \/ Call_number_to_words
    \/ Call_to_odia_ordinal_numeral
    \/ Call_to_odia_ordinal_words

Spec == Init /\ [][Next]_vars

----------------------------------------------------------------------------
(* The state machine: the calls inside one call of to_odia_words or of     *)
(* to_odia_barnabodha_words.  stack holds the frames of the calls that     *)
(* have not returned, the last one running; result is what the call that   *)
(* returned last gave its caller.                                          *)

\* the frame of a call that has run its first line: checked is what
\* _validate_and_format returned or raised, num_str when it returned
Frame(fn, x) ==
    CHOOSE frame \in
        {[fn |-> fn, number |-> arg, checked |-> _validate_and_format(arg), pc |-> "entry",
          value |-> ZERO, unit |-> ZERO, fractional_part |-> <<>>, prefix |-> <<>>] :
            arg \in {x}} : TRUE

Top == stack[Len(stack)]

\* the unit the loop stops at; to_odia_words goes on to the hundreds when no
\* unit of its tuple is reached
selected_unit(fn, value) ==
    IF fn = "to_odia_words"
    THEN IF FirstUnitAtMost(value, MODERN_UNITS, 1) > 0
         THEN MODERN_UNITS[FirstUnitAtMost(value, MODERN_UNITS, 1)]
         ELSE HUNDRED
    ELSE _SORTED_BARNABODHA_KEYS[FirstUnitAtMost(value, _SORTED_BARNABODHA_KEYS, 1)]

unit_label_of(fn, unit, index) ==
    IF fn = "to_odia_words" THEN UNITS(unit, index) ELSE BARNABODHA_UNITS(unit, index)

\* faulty variant: the integer part is rounded, not cut
integer_argument_rounded(num_str, dot) ==
    IF CharDigit(num_str[dot + 1]) >= 5
    THEN Norm(Succ(ParseInt(SubSeq(num_str, 1, dot - 1))))
    ELSE ParseInt(SubSeq(num_str, 1, dot - 1))

\* int(integer_part)
integer_argument(num_str, dot) == ParseInt(SubSeq(num_str, 1, dot - 1))

\* the frame waits for the call it makes
Waiting(frame, pc, value, unit, fractional_part, prefix) ==
    [frame EXCEPT !.pc = pc, !.value = value, !.unit = unit,
                  !.fractional_part = fractional_part, !.prefix = prefix]

\* the running frame makes a call
Push(waiting, callee) ==
    /\ stack' = SubSeq(stack, 1, Len(stack) - 1) \o <<waiting, callee>>
    /\ UNCHANGED <<op, result>>

\* the running frame returns or raises; the outermost one ends the call
Pop(rest, outcome) ==
    /\ stack' = rest
    /\ result' = outcome
    /\ op' = IF rest = <<>> THEN Top.fn ELSE op

\* the call on the integer part of a decimal
call_integer_part(frame, num_str, dot) ==
    Push(Waiting(frame, "integer", ZERO, ZERO, SubSeq(num_str, dot + 1, Len(num_str)), <<>>),
         Frame(frame.fn, PyInt(FALSE, integer_argument(num_str, dot))))

\* the call on the quotient by the selected unit
call_quotient(frame, value, unit) ==
    Push(Waiting(frame, "prefix", value, unit, <<>>, <<>>),
         Frame(frame.fn, PyInt(FALSE, FloorDiv(value, unit))))

\* _validate_and_format raises: the error leaves every frame
Enter_raise ==
    /\ stack # <<>>
    /\ Top.pc = "entry"
    /\ Top.checked.exc # "none"
    /\ Pop(<<>>, Top.checked)
    /\ UNCHANGED <<given, number, text, as_roman, as_odilish, as_english, options>>

\* no unit is selected: to_odia_barnabodha_words leaves its loop without a
\* return
falls_through(fn, value) ==
    /\ fn = "to_odia_barnabodha_words"
    /\ FirstUnitAtMost(value, _SORTED_BARNABODHA_KEYS, 1) = 0

\* NUM_DATA[value][index]: the entry of a value up to 100, KeyError above
table_entry(value, index) ==
    IF IsTabulated(value) THEN Ok(NUM_DATA(value, index)) ELSE Raise("KeyError")

\* the frames left when the running one returns or raises
frames_left(outcome) ==
    IF outcome.exc = "none" THEN SubSeq(stack, 1, Len(stack) - 1) ELSE <<>>

return_entry(outcome) == Pop(frames_left(outcome), outcome)

\* value <= 100, or the loop of to_odia_barnabodha_words fell through: the
\* table entry is returned
Enter_return ==
    /\ stack # <<>>
    /\ Top.pc = "entry"
    /\ Top.checked.exc = "none"
    /\ DotAt(Top.checked.val) = 0
    /\ \/ IsTabulated(ParseInt(Top.checked.val))
       \/ /\ ~IsTabulated(ParseInt(Top.checked.val))
          /\ falls_through(Top.fn, ParseInt(Top.checked.val))
    /\ return_entry(table_entry(ParseInt(Top.checked.val),
                                _resolve_language_index(as_roman, as_odilish)))
    /\ UNCHANGED <<given, number, text, as_roman, as_odilish, as_english, options>>

\* "." in num_str: the call on the integer part
Enter_call_integer ==
    /\ stack # <<>>
    /\ Top.pc = "entry"
    /\ Top.checked.exc = "none"
    /\ DotAt(Top.checked.val) > 0
    /\ call_integer_part(Top, Top.checked.val, DotAt(Top.checked.val))
    /\ UNCHANGED <<given, number, text, as_roman, as_odilish, as_english, options>>

\* value > 100: the call on the quotient by the selected unit
Enter_call_quotient ==
    /\ stack # <<>>
    /\ Top.pc = "entry"
    /\ Top.checked.exc = "none"
    /\ DotAt(Top.checked.val) = 0
    /\ ~IsTabulated(ParseInt(Top.checked.val))
    /\ ~falls_through(Top.fn, ParseInt(Top.checked.val))
    /\ \E value \in {ParseInt(Top.checked.val)} :
       \E unit \in {selected_unit(Top.fn, value)} :
           call_quotient(Top, value, unit)
    /\ UNCHANGED <<given, number, text, as_roman, as_odilish, as_english, options>>

\* the prefix is there and the remainder is not zero: the call on the
\* remainder
Resume_call ==
    /\ stack # <<>>
    /\ Top.pc = "prefix"
    /\ result.exc = "none"
    /\ Mod(Top.value, Top.unit) # ZERO
    /\ Push(Waiting(Top, "suffix", Top.value, Top.unit, <<>>, result.val),
            Frame(Top.fn, PyInt(FALSE, Mod(Top.value, Top.unit))))
    /\ UNCHANGED <<given, number, text, as_roman, as_odilish, as_english, options>>

\* what the frame returns once its last call has returned words
returned(frame, words, index) ==
    CASE frame.pc = "integer" ->
            words \o <<SP>> \o DASHAMIK(index) \o <<SP>>
            \o join(<<SP>>, fractional_words(frame.fractional_part, index))
      [] frame.pc = "prefix" ->
            words \o <<SP>> \o unit_label_of(frame.fn, frame.unit, index)
      [] frame.pc = "suffix" ->
            frame.prefix \o <<SP>> \o unit_label_of(frame.fn, frame.unit, index)
            \o <<SP>> \o words

\* the last call of the frame has returned: the frame returns
Resume_return ==
    /\ stack # <<>>
    /\ \/ Top.pc \in {"integer", "suffix"}
       \/ Top.pc = "prefix" /\ Mod(Top.value, Top.unit) = ZERO
    /\ result.exc = "none"
    /\ Pop(SubSeq(stack, 1, Len(stack) - 1),
           Ok(returned(Top, result.val, _resolve_language_index(as_roman, as_odilish))))
    /\ UNCHANGED <<given, number, text, as_roman, as_odilish, as_english, options>>

\* integers of 18 to 36 digits, the last ones far above the largest unit
LargeSamples ==
    {<<9, 9, 9, 9, 9, 9, 9, 9, 9, 9, 9, 9, 9, 9, 9, 9, 9, 9>>,
     <<9, 9, 9, 9, 9, 9, 9, 9, 9, 9, 9, 9, 9, 9, 9, 9, 3, 4>>,
     <<1, 2, 3, 4, 5, 6, 7, 8, 9, 0, 1, 2, 3, 4, 5, 6, 7, 8, 9, 0, 1, 2, 3>>,
     [i \in 1..31 |-> 1 + (i % 9)],
     [i \in 1..36 |-> 1 + (i % 9)]}

\* the quotients the composed inputs are given
RecursionQuotients == {1, MaxQuot}

RecursionIntegers ==
    {Dec(n) : n \in 0..MaxOrdinal}
    \cup UNION {{Compose(q, e, r) : q \in RecursionQuotients, r \in Remainders(e)} :
                    e \in 3..MaxExp}
    \cup LargeSamples

\* integer parts of the decimals
RecursionSigned == {<<0>>, <<1, 2>>, <<1, 2, 5>>, <<1, 0, 0, 0>>, [i \in 1..15 |-> 9]}

RecursionFractions == {<<>>, <<0>>, <<5>>, <<9, 9>>, <<0, 2, 5>>}

RecursionInputs ==
    {PyInt(FALSE, d) : d \in RecursionIntegers}
    \cup {PyInt(TRUE, d) : d \in RecursionSigned}
    \cup {PyFloat(neg, d, f) : neg \in BOOLEAN, d \in RecursionSigned, f \in RecursionFractions}
    \cup {PyStr(neg, d, f) : neg \in BOOLEAN, d \in RecursionSigned, f \in RecursionFractions}
    \cup SpecialSamples

RecursionInit ==
    /\ op = "none"
    /\ given = "number"
    /\ number \in RecursionInputs
    /\ text = <<>>
    /\ as_roman \in BOOLEAN
    /\ as_odilish = FALSE
    /\ as_english = FALSE
    /\ to_english = FALSE
    /\ use_odia_digits = FALSE
    /\ barnabodha_style = FALSE
    /\ result = Raise("none")
    /\ \E fn \in {"to_odia_words", "to_odia_barnabodha_words"} : stack = <<Frame(fn, number)>>

RecursionNext ==
    \/ Enter_raise
    \/ Enter_return
    \/ Enter_call_integer
    \/ Enter_call_quotient
    \/ Resume_call
    \/ Resume_return

\* a call that can take a step takes it
RecursionSpec == RecursionInit /\ [][RecursionNext]_vars /\ WF_vars(RecursionNext)

----------------------------------------------------------------------------
(* Vocabulary of the properties                                            *)

\* the register the flags select, as the contract states it
Register == IF as_odilish THEN 2 ELSE IF as_roman THEN 1 ELSE 0

\* the entry of a label table, written out
Entry(tbl, key, reg) == <<[tbl |-> tbl, key |-> key, reg |-> reg]>>

Blank == <<[tbl |-> "SP", key |-> <<>>, reg |-> 0]>>

\* the input is a finite number, of any type
IsNumber(x) == x.form = "fin"

IsNegative(x) ==
    /\ IsNumber(x)
    /\ x.neg
    /\ ((\E i \in 1..Len(x.ip) : x.ip[i] # 0) \/ (\E j \in 1..Len(x.frac) : x.frac[j] # 0))

\* the input is a non-negative integer (5, 5.0, "5", "5.00")
IsNatural(x) == IsNumber(x) /\ ~IsNegative(x) /\ \A i \in 1..Len(x.frac) : x.frac[i] = 0

\* the fractional digits of the canonical numeral: trailing zeros dropped
RECURSIVE CanonicalFraction(_)
CanonicalFraction(f) ==
    IF Len(f) > 0 /\ f[Len(f)] = 0 THEN CanonicalFraction(SubSeq(f, 1, Len(f) - 1)) ELSE f

\* the value fits TLC's integers, so that it can be computed with
MaxInt == 2^30 + (2^30 - 1)

FitsInt(d) == Len(d) < Len(Dec(MaxInt)) \/ (Len(d) = Len(Dec(MaxInt)) /\ GE(Dec(MaxInt), d))

\* the words of the integer k in the modern and in the classical system
Words(k) == to_odia_words(PyInt(FALSE, k), as_roman, as_odilish).val

ClassicalWords(k) == to_odia_barnabodha_words(PyInt(FALSE, k), as_roman, as_odilish).val

----------------------------------------------------------------------------
(* Modern cardinal words                                                   *)

\* the largest of the magnitudes 10000000, 100000, 1000 that is <= v
LargestModernMagnitude(v) ==
    CHOOSE m \in {10000000, 100000, 1000} :
        m <= v /\ \A m2 \in {10000000, 100000, 1000} : m2 <= v => m2 <= m

\* C1: for every integer value >= 1000, to_odia_words returns the words of
\* value div m, a blank and the unit label of m, where m is the largest of
\* 10000000, 100000, 1000 that is <= value, followed by a blank and the words
\* of value mod m only when that remainder is not zero; 1000, 100000 and
\* 10000000 yield exactly <one> <unit label>.
C1_LargestMagnitudeFirst ==
    (op = "to_odia_words" /\ IsNatural(number) /\ FitsInt(number.ip)
        /\ ToInt(number.ip) >= 1000)
    => LET v == ToInt(number.ip)
           m == LargestModernMagnitude(v)
           q == v \div m
           r == v % m
       IN  /\ result.exc = "none"
           /\ result.val = Words(Dec(q)) \o Blank \o Entry("UNITS", Dec(m), Register)
                           \o (IF r # 0 THEN Blank \o Words(Dec(r)) ELSE <<>>)
           /\ v \in {1000, 100000, 10000000}
              => result.val = Entry("NUM_DATA", <<1>>, Register) \o Blank
                              \o Entry("UNITS", Dec(v), Register)

\* 1 lakh 101 was converted: the lakh unit was selected and a remainder follows
C1_Witness ==
    /\ op = "to_odia_words"
    /\ number = PyInt(FALSE, Dec(100101))
    /\ result.exc = "none"
    /\ SubSeq(result.val, 1, 4) = Entry("NUM_DATA", <<1>>, Register) \o Blank
                                  \o Entry("UNITS", Dec(100000), Register) \o Blank
    /\ Len(result.val) > 4

\* C2: for every integer n in 0..100 and every register, to_odia_words
\* returns exactly the tabulated entry NUM_DATA[n][register], one word, with
\* no unit label and no composition.
C2_TabulatedUpTo100 ==
    (op = "to_odia_words" /\ IsNatural(number) /\ FitsInt(number.ip)
        /\ ToInt(number.ip) <= 100)
    => /\ result.exc = "none"
       /\ result.val = Entry("NUM_DATA", Dec(ToInt(number.ip)), Register)

\* 57 was converted in the casual register
C2_Witness ==
    /\ op = "to_odia_words"
    /\ number = PyInt(FALSE, <<5, 7>>)
    /\ as_odilish
    /\ result = Ok(Entry("NUM_DATA", <<5, 7>>, 2))

\* C3: for every integer value in 101..999, to_odia_words returns the words
\* of value div 100, a blank and the hundred-unit label, followed by a blank
\* and the words of value mod 100 when that remainder is not zero, and it
\* ends in no blank when the remainder is zero.
C3_HundredsBlock ==
    (op = "to_odia_words" /\ IsNatural(number) /\ FitsInt(number.ip)
        /\ ToInt(number.ip) >= 101 /\ ToInt(number.ip) <= 999)
    => LET v == ToInt(number.ip)
           h == v \div 100
           r == v % 100
       IN  /\ result.exc = "none"
           /\ result.val = Entry("NUM_DATA", Dec(h), Register) \o Blank
                           \o Entry("UNITS", Dec(100), Register)
                           \o (IF r # 0
                               THEN Blank \o Entry("NUM_DATA", Dec(r), Register)
                               ELSE <<>>)
           /\ <<result.val[Len(result.val)]>> # Blank

\* 125 was converted in the native register to <one> <hundred-unit>
\* <twenty-five>
C3_Witness ==
    /\ op = "to_odia_words"
    /\ number = PyInt(FALSE, <<1, 2, 5>>)
    /\ ~as_roman /\ ~as_odilish
    /\ result.exc = "none"
    /\ result.val = Entry("NUM_DATA", <<1>>, 0) \o Blank
                    \o Entry("UNITS", <<1, 0, 0>>, 0) \o Blank
                    \o Entry("NUM_DATA", <<2, 5>>, 0)

\* the digits of a fractional part, each by its own entry, blank-separated
RECURSIVE DigitByDigit(_, _)
DigitByDigit(f, reg) ==
    IF Len(f) = 1 THEN Entry("NUM_DATA", <<f[1]>>, reg)
    ELSE Entry("NUM_DATA", <<f[1]>>, reg) \o Blank \o DigitByDigit(Tail(f), reg)

\* C4: for every non-negative decimal of at most 10 fractional digits whose
\* canonical numeral has a fractional part (a longer one is rounded first),
\* to_odia_words and to_odia_barnabodha_words return the
\* words of the integer part, a blank, the decimal label, a blank, and every
\* fractional digit by its own 0-9 entry, in order, blank-separated, all in
\* the resolved register.
C4_FractionDigitByDigit ==
    (op \in {"to_odia_words", "to_odia_barnabodha_words"} /\ IsNumber(number)
        /\ ~IsNegative(number) /\ CanonicalFraction(number.frac) # <<>>
        /\ Len(number.frac) <= 10)
    => /\ result.exc = "none"
       /\ result.val =
            (IF op = "to_odia_words" THEN Words(number.ip) ELSE ClassicalWords(number.ip))
            \o Blank \o Entry("DASHAMIK", <<>>, Register) \o Blank
            \o DigitByDigit(CanonicalFraction(number.frac), Register)

\* 10.25 was converted: <ten> <decimal label> <two> <five>
C4_Witness ==
    /\ op = "to_odia_words"
    /\ number = PyFloat(FALSE, <<1, 0>>, <<2, 5>>)
    /\ result.exc = "none"
    /\ result.val = Entry("NUM_DATA", <<1, 0>>, Register) \o Blank
                    \o Entry("DASHAMIK", <<>>, Register) \o Blank
                    \o Entry("NUM_DATA", <<2>>, Register) \o Blank
                    \o Entry("NUM_DATA", <<5>>, Register)

\* C5: for every integer n >= 1 the words returned by to_odia_words never
\* contain the zero label NUM_DATA[0]; the zero word is returned only for the
\* integer 0.
C5_NoZeroWord ==
    (op = "to_odia_words" /\ IsNatural(number))
    => /\ result.exc = "none"
       /\ (\E i \in 1..Len(result.val) :
                result.val[i].tbl = "NUM_DATA" /\ result.val[i].key = <<0>>)
          <=> AllZero(number.ip)

\* a value with zero remainders at two levels, 12 crore, was converted
C5_Witness ==
    /\ op = "to_odia_words"
    /\ number = PyInt(FALSE, Compose(12, 7, <<0>>))
    /\ result.exc = "none"
    /\ Len(result.val) = 3

----------------------------------------------------------------------------
(* Classical words                                                         *)

\* C6: for every integer value > 100, to_odia_barnabodha_words decomposes by
\* the largest classical magnitude <= value, a power of ten from 10^2 to
\* 10^17: the words of the quotient, a blank, the label of the magnitude and,
\* when the remainder is not zero, a blank and the words of the remainder;
\* 10000 is <one> <ayuta>.
C6_ClassicalLargestFirst ==
    (op = "to_odia_barnabodha_words" /\ IsNatural(number) /\ ~IsTabulated(number.ip))
    => LET v == number.ip
           e == IF Len(v) - 1 > 17 THEN 17 ELSE Len(v) - 1
           q == SubSeq(v, 1, Len(v) - e)
           r == Norm(SubSeq(v, Len(v) - e + 1, Len(v)))
       IN  /\ result.exc = "none"
           /\ result.val = ClassicalWords(q) \o Blank
                           \o Entry("BARNABODHA_UNITS", <<1>> \o [i \in 1..e |-> 0], Register)
                           \o (IF AllZero(r) THEN <<>> ELSE Blank \o ClassicalWords(r))
           /\ v = <<1, 0, 0, 0, 0>>
              => result.val = Entry("NUM_DATA", <<1>>, Register) \o Blank
                              \o Entry("BARNABODHA_UNITS", v, Register)

\* 10000 was converted in one step
C6_Witness ==
    /\ op = "to_odia_barnabodha_words"
    /\ number = PyInt(FALSE, Dec(10000))
    /\ result.exc = "none"
    /\ Len(result.val) = 3
    /\ result.val[3].tbl = "BARNABODHA_UNITS"

----------------------------------------------------------------------------
(* Register resolution                                                     *)

\* C7: _resolve_language_index never fails and returns a value in {0,1,2}:
\* 2 whenever the casual flag is set, also when both flags are set; 1 when
\* only the phonetic flag is set; 0 when neither is set.
C7_RegisterResolution ==
    (op = "_resolve_language_index")
    => /\ result.exc = "none"
       /\ result.val \in {0, 1, 2}
       /\ as_odilish => result.val = 2
       /\ (as_roman /\ ~as_odilish) => result.val = 1
       /\ (~as_roman /\ ~as_odilish) => result.val = 0

\* both flags were set and the casual register was returned
C7_Witness ==
    /\ op = "_resolve_language_index"
    /\ as_roman /\ as_odilish
    /\ result = Ok(2)

----------------------------------------------------------------------------
(* Rejected inputs                                                         *)

\* C8: each of to_odia_words, to_odia_barnabodha_words,
\* to_odia_ordinal_numeral and to_odia_ordinal_words raises the
\* negative-value error (ValueError) and returns no string for every input
\* whose numeric value is less than zero.
C8_NegativeRejectedEverywhere ==
    (op \in {"to_odia_words", "to_odia_barnabodha_words",
             "to_odia_ordinal_numeral", "to_odia_ordinal_words"}
        /\ IsNegative(number))
    => result.exc = "ValueError"

\* C9: _validate_and_format fails with the negative-value error (ValueError)
\* whenever the value of its input is less than zero, and that kind differs
\* from the kind it fails with on text that is no number.
C9_NegativeKindDistinct ==
    (op = "_validate_and_format" /\ IsNegative(number))
    => /\ result.exc = "ValueError"
       /\ result.exc # _validate_and_format(Special("str", "bad", FALSE)).exc

\* C10: _validate_and_format fails with the invalid-number error (TypeError)
\* for every input that is no finite real number: text that is no number,
\* objects that are no number, NaN and positive infinity.
C10_InvalidNumberKind ==
    (op = "_validate_and_format"
        /\ (number.form \in {"bad", "nan"} \/ (number.form = "inf" /\ ~number.neg)))
    => result.exc = "TypeError"

----------------------------------------------------------------------------
(* The canonical numeral string                                            *)

\* the value of x, rounded to 10 fractional digits, is an integer: the first
\* ten fractional digits are all 0 and the rest rounds down, or they are all
\* 9 and the rest rounds up
RoundsToInteger(x) ==
    LET kept == [i \in 1..10 |-> IF i <= Len(x.frac) THEN x.frac[i] ELSE 0]
        up == Len(x.frac) > 10 /\ x.frac[11] >= 5
    IN  \/ ~up /\ \A i \in 1..10 : kept[i] = 0
        \/ up /\ \A i \in 1..10 : kept[i] = 9

\* C11: whenever _validate_and_format returns, the string is made of decimal
\* digits and at most one ".", starts and ends with a digit, has at most 10
\* digits after the point, the last of them not "0", has no exponent, and
\* has no "." at all when the value rounded to 10 fractional digits is an
\* integer.
C11_CanonicalNumeral ==
    (op = "_validate_and_format" /\ result.exc = "none") =>
        LET s == result.val
            dots == {i \in 1..Len(s) : s[i] = "."}
        IN  /\ Len(s) >= 1
            /\ \A i \in 1..Len(s) : s[i] \in {"0", "1", "2", "3", "4", "5", "6", "7", "8", "9", "."}
            /\ Cardinality(dots) <= 1
            /\ s[1] # "." /\ s[Len(s)] # "."
            /\ \A i \in dots : Len(s) - i <= 10 /\ s[Len(s)] # "0"
            /\ RoundsToInteger(number) => dots = {}

\* a value with more than 10 fractional digits that rounds to an integer has
\* been formatted, with a carry into the integer part
C11_Witness ==
    /\ op = "_validate_and_format"
    /\ result.exc = "none"
    /\ Len(number.frac) > 10
    /\ number.ip = <<9>>
    /\ result.val = <<"1", "0">>

----------------------------------------------------------------------------
(* Digit transliteration                                                   *)

\* the numbers a and b are equal as Python compares them (5 == 5.0)
SameValue(a, b) ==
    /\ a.ip = b.ip
    /\ CanonicalFraction(a.frac) = CanonicalFraction(b.frac)
    /\ IsNegative(a) = IsNegative(b)

OdiaDigitOf ==
    [c \in {"0", "1", "2", "3", "4", "5", "6", "7", "8", "9"} |->
        CASE c = "0" -> "U+0B66" [] c = "1" -> "U+0B67" [] c = "2" -> "U+0B68"
          [] c = "3" -> "U+0B69" [] c = "4" -> "U+0B6A" [] c = "5" -> "U+0B6B"
          [] c = "6" -> "U+0B6C" [] c = "7" -> "U+0B6D" [] c = "8" -> "U+0B6E"
          [] c = "9" -> "U+0B6F"]

\* the text is made of ASCII digits, "." and "," only
IsNumeralString(t) ==
    /\ \E i \in 1..Len(t) : t[i] \in DOMAIN OdiaDigitOf
    /\ \A i \in 1..Len(t) : t[i] \in DOMAIN OdiaDigitOf \cup {".", ","}

\* C13: to_odia_digits of a numeral string returns one character for each
\* character of the input: the Odia digit for an ASCII digit, the character
\* itself for "." and ",", so that leading zeros, trailing fractional zeros
\* and grouping commas are all kept.
C13_CharacterByCharacter ==
    (op = "to_odia_digits" /\ given = "text" /\ IsNumeralString(text)) =>
        result = Ok([i \in 1..Len(text) |->
                        IF text[i] \in DOMAIN OdiaDigitOf THEN OdiaDigitOf[text[i]] ELSE text[i]])

\* the ASCII digit of an Odia digit, any other character as it is
AsciiOf(c) ==
    IF \E a \in DOMAIN OdiaDigitOf : OdiaDigitOf[a] = c
    THEN CHOOSE a \in DOMAIN OdiaDigitOf : OdiaDigitOf[a] = c
    ELSE c

\* the text without its commas and with its Odia digits in ASCII
RECURSIVE Mapped(_)
Mapped(t) ==
    IF t = <<>> THEN <<>>
    ELSE IF Head(t) = "," THEN Mapped(Tail(t))
    ELSE <<AsciiOf(Head(t))>> \o Mapped(Tail(t))

\* the text without the blanks around it
Trimmed(t) ==
    IF \A i \in 1..Len(t) : t[i] = " " THEN <<>>
    ELSE LET first == CHOOSE i \in 1..Len(t) : t[i] # " " /\ \A j \in 1..(i - 1) : t[j] = " "
             last == CHOOSE i \in 1..Len(t) : t[i] # " " /\ \A j \in (i + 1)..Len(t) : t[j] = " "
         IN  SubSeq(t, first, last)

\* the text without its sign
Unsigned(t) == IF t # <<>> /\ t[1] = "-" THEN Tail(t) ELSE t

\* the digits of the value of a non-empty string of ASCII digits: the
\* string from its first digit that is not "0" on, <<0>> when there is none
DigitsRead(u) ==
    IF \A i \in 1..Len(u) : u[i] = "0" THEN <<0>>
    ELSE LET first == CHOOSE i \in 1..Len(u) : u[i] # "0" /\ \A j \in 1..(i - 1) : u[j] = "0"
         IN  [i \in 1..(Len(u) - first + 1) |-> CharDigit(u[first + i - 1])]

IsDigits(u) == \A i \in 1..Len(u) : u[i] \in DOMAIN OdiaDigitOf

\* an integer numeral: digits, at least one
IsIntegerNumeral(u) == u # <<>> /\ IsDigits(u)

\* a decimal numeral: digits around exactly one ".", at least one digit
IsDecimalNumeral(u) ==
    \E i \in 1..Len(u) :
        /\ u[i] = "."
        /\ Len(u) > 1
        /\ IsDigits(SubSeq(u, 1, i - 1))
        /\ IsDigits(SubSeq(u, i + 1, Len(u)))

\* C14: to_english_number drops every "," of its text and maps the Odia
\* digits to ASCII; if what is left (blanks around it and a sign aside) is a
\* string of digits it returns that integer, if it is digits with one "."
\* it returns that decimal number, and in every other case (empty, several
\* points, letters, inner blanks) it fails with ValueError.
C14_ToEnglishNumber ==
    (op = "to_english_number") =>
        LET m == Trimmed(Mapped(text))
            u == Unsigned(m)
            dot == IF IsDecimalNumeral(u) THEN CHOOSE i \in 1..Len(u) : u[i] = "." ELSE 0
        IN  IF IsIntegerNumeral(u)
            THEN /\ result.exc = "none"
                 /\ result.val.type = "int"
                 /\ result.val.frac = <<>>
                 /\ result.val.ip = DigitsRead(u)
                 /\ result.val.neg = (m # u /\ DigitsRead(u) # <<0>>)
            ELSE IF IsDecimalNumeral(u)
            THEN /\ result.exc = "none"
                 /\ result.val.type = "float"
                 /\ result.val.ip = (IF dot = 1 THEN <<0>> ELSE DigitsRead(SubSeq(u, 1, dot - 1)))
                 /\ CanonicalFraction(result.val.frac)
                        = CanonicalFraction(CharDigits(SubSeq(u, dot + 1, Len(u))))
                 /\ result.val.neg = (m # u)
            ELSE result.exc = "ValueError"

\* a grouped Odia numeral was converted: the comma is gone and the digits
\* are read as the integer 12
C14_Witness ==
    /\ op = "to_english_number"
    /\ text = <<"U+0B67", ",", "U+0B68">>
    /\ result = Ok(PyInt(FALSE, <<1, 2>>))

----------------------------------------------------------------------------
(* Ordinals                                                                *)

\* the Odia digits of the natural number k
OdiaDigitsOf(k) == [i \in 1..Len(Dec(k)) |-> OdiaDigitOf[DigitChar(Dec(k)[i])]]

\* the affixes, by code point
Affix1 == <<"U+0B2E">>

Affix23 == <<"U+0B5F">>

Affix4 == <<"U+0B30", "U+0B4D", "U+0B25">>

Affix6 == <<"U+0B37", "U+0B4D", "U+0B20">>

AffixTeens == <<"U+0B36">>

\* the affix tabulated for 1..10; 5 and 7..10 share the affix of 1
TabulatedAffix(k) ==
    CASE k \in {2, 3} -> Affix23
      [] k = 4 -> Affix4
      [] k = 6 -> Affix6
      [] OTHER -> Affix1

\* C15: for an integer v >= 0, to_odia_ordinal_numeral(v) is the Odia digits
\* of v followed by one affix: the teens affix for 11..18, else the affix
\* tabulated for v itself (1..10), else the one tabulated for v mod 10, else
\* (v mod 10 = 0) the default affix, which is the affix of 1.
C15_OrdinalAffix ==
    (op = "to_odia_ordinal_numeral" /\ number.type = "int" /\ ~number.neg
        /\ FitsInt(number.ip)) =>
        LET v == ToInt(number.ip)
            affix == IF v \in 11..18 THEN AffixTeens
                     ELSE IF v \in 1..10 THEN TabulatedAffix(v)
                     ELSE IF v % 10 \in 1..9 THEN TabulatedAffix(v % 10)
                     ELSE Affix1
        IN  result = Ok(OdiaDigitsOf(v) \o affix)

\* 21 was given the affix of 1, not the teens affix
C15_Witness ==
    /\ op = "to_odia_ordinal_numeral"
    /\ number = PyInt(FALSE, <<2, 1>>)
    /\ result = Ok(<<"U+0B68", "U+0B67", "U+0B2E">>)

\* the values that have an entry of their own in the table of ordinal words
TabulatedOrdinals ==
    (1..20) \cup {30, 40, 50, 60, 70, 80, 90, 100} \cup {1000, 100000, 10000000}

\* C16: for an accepted integer v, to_odia_ordinal_words(v, register) is
\* exactly ORDINAL_DATA[v] in the resolved register when v is one of 1..20,
\* 30, 40, .. 100, 1000, 100000, 10000000; for every other v it is the
\* cardinal words of v in the same register immediately followed (no blank)
\* by the ordinal suffix label of that register.
C16_OrdinalWords ==
    (op = "to_odia_ordinal_words" /\ number.type = "int" /\ ~number.neg
        /\ FitsInt(number.ip)) =>
        IF ToInt(number.ip) \in TabulatedOrdinals
        THEN result = Ok(Entry("ORDINAL_DATA", number.ip, Register))
        ELSE result = Ok(Words(number.ip) \o Entry("ORDINAL_SUFFIX", <<>>, Register))

\* 21 has no entry: its ordinal is the cardinal word and the suffix label
C16_Witness ==
    /\ op = "to_odia_ordinal_words"
    /\ number = PyInt(FALSE, <<2, 1>>)
    /\ as_roman /\ ~as_odilish
    /\ result = Ok(Entry("NUM_DATA", <<2, 1>>, 1) \o Entry("ORDINAL_SUFFIX", <<>>, 1))

\* the input is a positive integer (7, 7.0, "7")
IsPositiveInteger(x) == IsNatural(x) /\ \E i \in 1..Len(x.ip) : x.ip[i] # 0

\* C17: to_odia_ordinal_words fails with ValueError for every input that is
\* not a positive integer: zero, a negative value, a decimal that is no
\* integer, text that is no number.
C17_OrdinalWordsRejects ==
    (op = "to_odia_ordinal_words" /\ ~IsPositiveInteger(number)) =>
        result.exc = "ValueError"

\* the characters of the known affix set
AffixCharacters ==
    {"U+0B2E", "U+0B5F", "U+0B30", "U+0B4D", "U+0B25", "U+0B37", "U+0B20", "U+0B36"}

IsOdiaDigits(u) == \A i \in 1..Len(u) : u[i] \in {OdiaDigitOf[a] : a \in DOMAIN OdiaDigitOf}

\* t is p, blanks, affix characters, for a non-empty p of characters of
\* prefixChars
HasShape(t, n, prefixChars) ==
    /\ n >= 1
    /\ \A i \in 1..n : t[i] \in prefixChars
    /\ \E j \in n..Len(t) :
            /\ \A i \in (n + 1)..j : t[i] = " "
            /\ \A i \in (j + 1)..Len(t) : t[i] \in AffixCharacters

\* the English suffix of the value with digits d, from the value alone
EnglishSuffix(d) ==
    LET units == d[Len(d)]
        tens == IF Len(d) > 1 THEN d[Len(d) - 1] ELSE 0
    IN  IF tens = 1 /\ units \in {1, 2, 3} THEN <<"t", "h">>
        ELSE IF units = 1 THEN <<"s", "t">>
        ELSE IF units = 2 THEN <<"n", "d">>
        ELSE IF units = 3 THEN <<"r", "d">>
        ELSE <<"t", "h">>

\* C18: to_english_ordinal_numeral of a text that is (blanks around it
\* aside) Odia digits, optional blanks and any characters of the affix set
\* returns the decimal digits of the value of the Odia digits followed by
\* "th" when the value mod 100 is 11, 12 or 13, else by "st", "nd", "rd" for
\* a last digit of 1, 2, 3, else by "th", whatever the affix was; a text
\* that does not match the pattern (Odia digits, "," and "." first, then
\* blanks, then affix characters) fails with ValueError.
C18_EnglishOrdinal ==
    (op = "to_english_ordinal_numeral") =>
        LET t == Trimmed(text)
            digitChars == {OdiaDigitOf[a] : a \in DOMAIN OdiaDigitOf}
        IN  /\ \A n \in 1..Len(t) :
                    (HasShape(t, n, digitChars) /\ (n = Len(t) \/ t[n + 1] \notin digitChars)) =>
                        LET v == DigitsRead(Mapped(SubSeq(t, 1, n)))
                        IN  result = Ok(DigitChars(v) \o EnglishSuffix(v))
            /\ (~\E n \in 1..Len(t) : HasShape(t, n, digitChars \cup {",", "."})) =>
                    result.exc = "ValueError"

\* the Odia numeral 112 with the affix of 4 was read as "112th"
C18_Witness ==
    /\ op = "to_english_ordinal_numeral"
    /\ text = <<"U+0B67", "U+0B67", "U+0B68", "U+0B30", "U+0B4D", "U+0B25">>
    /\ result = Ok(<<"1", "1", "2", "t", "h">>)

----------------------------------------------------------------------------
(* Numerals in free text                                                   *)

OdiaDigitCharacters == {OdiaDigitOf[a] : a \in DOMAIN OdiaDigitOf}

AsciiDigitCharacters == DOMAIN OdiaDigitOf

\* the numeral tokens of the text t in the script with digits D, as pairs of
\* positions: each maximal run of digits of D, "," and "." that holds a
\* digit, from its first digit to its last digit
TokenSpans(t, D) ==
    {p \in (1..Len(t)) \X (1..Len(t)) :
        /\ p[1] <= p[2]
        /\ t[p[1]] \in D /\ t[p[2]] \in D
        /\ \A k \in p[1]..p[2] : t[k] \in D \cup {",", "."}
        /\ \A k \in 1..(p[1] - 1) :
                (\A l \in k..(p[1] - 1) : t[l] \in D \cup {",", "."}) => t[k] \notin D
        /\ \A k \in (p[2] + 1)..Len(t) :
                (\A l \in (p[2] + 1)..k : t[l] \in D \cup {",", "."}) => t[k] \notin D}

\* the tokens at the spans S, left to right
TokensAt(t, S) ==
    [k \in 1..Cardinality(S) |->
        LET p == CHOOSE q \in S : Cardinality({r \in S : r[1] < q[1]}) = k - 1
        IN  SubSeq(t, p[1], p[2])]

\* C19 as stated: extract_odia_numbers(text, as_english=False) returns, left
\* to right, the numeral tokens of both scripts: the ASCII digit runs as
\* well as the Odia digit runs.
C19_BothScripts ==
    (op = "extract_odia_numbers" /\ ~as_english) =>
        result = Ok(TokensAt(text, TokenSpans(text, OdiaDigitCharacters)
                                   \cup TokenSpans(text, AsciiDigitCharacters)))

\* C19, amended: extract_odia_numbers(text, as_english=False) returns, left
\* to right, the Odia numeral tokens of the text and nothing else: each
\* maximal run of Odia digits, "," and "." that holds an Odia digit, from
\* its first to its last Odia digit.  ASCII digit runs are not extracted.
C19_OdiaTokensOnly ==
    (op = "extract_odia_numbers" /\ ~as_english) =>
        result = Ok(TokensAt(text, TokenSpans(text, OdiaDigitCharacters)))

\* a text with a numeral of each script: only the Odia one was returned
C19_Witness ==
    /\ op = "extract_odia_numbers"
    /\ ~as_english
    /\ text = <<"1", "2", " ", "U+0B6A", "U+0B6B", "U+0B6C">>
    /\ result = Ok(<< <<"U+0B6A", "U+0B6B", "U+0B6C">> >>)

\* the token, commas dropped and digits in ASCII, is a number
IsConvertible(token) ==
    IsIntegerNumeral(Mapped(token)) \/ IsDecimalNumeral(Mapped(token))

\* C20: extract_odia_numbers(text, as_english=True) always returns: its
\* result is, in the order of the text, the to_english_number conversion of
\* every Odia token that is a number; a token that is none (two decimal
\* points) is left out.
C20_UnconvertibleDropped ==
    (op = "extract_odia_numbers" /\ as_english) =>
        LET tokens == TokensAt(text, TokenSpans(text, OdiaDigitCharacters))
            kept == SelectSeq(tokens, IsConvertible)
        IN  /\ result.exc = "none"
            /\ Len(result.val) = Len(kept)
            /\ \A k \in 1..Len(kept) : Ok(result.val[k]) = to_english_number(kept[k])

\* a token with two points was dropped and the numeral after it converted
C20_Witness ==
    /\ op = "extract_odia_numbers"
    /\ as_english
    /\ text = <<"U+0B67", ".", ".", "U+0B68", " ", "U+0B6A">>
    /\ result = Ok(<<PyInt(FALSE, <<4>>)>>)

\* the digits of the script that replace_numbers reads
SourceDigits(english) == IF english THEN OdiaDigitCharacters ELSE AsciiDigitCharacters

\* the digit of the other script, any other character as it is
Transliterated(c, english) ==
    IF english THEN AsciiOf(c)
    ELSE IF c \in DOMAIN OdiaDigitOf THEN OdiaDigitOf[c] ELSE c

InSomeSpan(i, S) == \E p \in S : p[1] <= i /\ i <= p[2]

\* C21: in both directions replace_numbers returns the text in which every
\* numeral token of the source script (commas, several dots and leading
\* zeros included) is replaced by its transliteration, digit for digit, and
\* every character outside the tokens is unchanged.
C21_TokensTransliterated ==
    (op = "replace_numbers") =>
        result = Ok([i \in 1..Len(text) |->
                        IF InSomeSpan(i, TokenSpans(text, SourceDigits(to_english)))
                        THEN Transliterated(text[i], to_english)
                        ELSE text[i]])

\* the characters before the first point of t, all of t when it has none
BeforePoint(t) == IF DotAt(t) = 0 THEN t ELSE SubSeq(t, 1, DotAt(t) - 1)

\* r is grouped in the Indian style: counted from the right, the fourth
\* character and every third one after it is a comma and no other is; the
\* leftmost character is a digit
IndianGrouping(r) ==
    /\ \A k \in 1..Len(r) :
            (r[Len(r) + 1 - k] = ",") <=> (k >= 4 /\ (k - 4) % 3 = 0)
    /\ r # <<>> => r[1] # ","

\* C22: format_indian_style groups the integer digits of the canonical
\* numeral from the right into one group of three and then groups of two,
\* joined by ",", with no comma for at most three digits, and leaves the
\* fraction as it is: the result without its commas is the canonical
\* numeral (in the script asked for); 1000000 gives "10,00,000".
C22_IndianGrouping ==
    (op = "format_indian_style" /\ result.exc = "none") =>
        /\ _validate_and_format(number).exc = "none"
        /\ [i \in 1..Len(remove_commas(result.val)) |-> AsciiOf(remove_commas(result.val)[i])]
                = _validate_and_format(number).val
        /\ \A i \in 1..Len(result.val) :
                IF use_odia_digits THEN result.val[i] \notin AsciiDigitCharacters
                ELSE result.val[i] \notin OdiaDigitCharacters
        /\ IndianGrouping(BeforePoint(result.val))
        /\ Len(BeforePoint(_validate_and_format(number).val)) <= 3
                => \A i \in 1..Len(result.val) : result.val[i] # ","
        /\ (number = PyInt(FALSE, <<1, 0, 0, 0, 0, 0, 0>>) /\ ~use_odia_digits)
                => result.val = <<"1", "0", ",", "0", "0", ",", "0", "0", "0">>

\* ten lakh was formatted
C22_Witness ==
    /\ op = "format_indian_style"
    /\ number = PyInt(FALSE, <<1, 0, 0, 0, 0, 0, 0>>)
    /\ ~use_odia_digits
    /\ result = Ok(<<"1", "0", ",", "0", "0", ",", "0", "0", "0">>)

----------------------------------------------------------------------------
(* Termination and depth of the recursion                                  *)

\* the recursive calls in progress: the frames above the outermost one
Depth == IF stack = <<>> THEN 0 ELSE Len(stack) - 1

\* the denomination steps of the system the outermost call converts in
DenominationSteps == IF stack[1].fn = "to_odia_words" THEN 6 ELSE 16

\* the input is a finite number that is not negative
IsAccepted(x) == IsNumber(x) /\ ~IsNegative(x)

\* the input is below 10^18, the end of the classical table
BelowTableEnd(x) == Len(x.ip) <= 18

\* a call that was entered on an accepted input returns words
Terminates == (stack # <<>> /\ IsAccepted(number)) ~> (stack = <<>> /\ result.exc = "none")

\* a step that makes a call makes it on a non-negative int strictly smaller
\* than the value of the caller: than its value when the caller decomposes
\* an integer, than its argument when the caller converts the integer part
\* of a decimal
CallsStrictlySmaller ==
    Len(stack') > Len(stack) =>
        LET caller == stack'[Len(stack)]
            callee == stack'[Len(stack')]
        IN  /\ Len(stack') = Len(stack) + 1
            /\ callee.fn = caller.fn
            /\ callee.number.type = "int"
            /\ ~callee.number.neg
            /\ IF caller.pc = "integer"
               THEN /\ GE(Norm(caller.number.ip), callee.number.ip)
                    /\ ~AllZero(caller.number.frac)
               ELSE ~GE(callee.number.ip, caller.value)

DepthWithinSteps == stack # <<>> => Depth <= DenominationSteps

\* C23 as stated: every call of to_odia_words and of
\* to_odia_barnabodha_words on a finite non-negative input terminates, each
\* recursive call is made on a strictly smaller non-negative integer than
\* its caller's value, and the recursion depth never exceeds the number of
\* denomination steps, 6 in the modern and 16 in the classical system.
C23_TerminatesWithinSteps ==
    /\ Terminates
    /\ [][CallsStrictlySmaller]_vars
    /\ []DepthWithinSteps

\* C23, amended: every call of to_odia_words and of
\* to_odia_barnabodha_words on a finite non-negative input terminates and
\* each recursive call is made on a strictly smaller non-negative integer
\* than its caller's value; for an input below 10^18 the recursion depth
\* never exceeds 6 in the modern and 16 in the classical system.
C23_TerminatesWithinStepsBelowTableEnd ==
    /\ Terminates
    /\ [][CallsStrictlySmaller]_vars
    /\ [](BelowTableEnd(number) => DepthWithinSteps)

\* a classical conversion of an 18-digit integer is 16 calls deep, each
\* made on a smaller integer
C23_Witness ==
    /\ IsAccepted(number)
    /\ BelowTableEnd(number)
    /\ stack # <<>>
    /\ stack[1].fn = "to_odia_barnabodha_words"
    /\ Depth = 16
    /\ \A i \in 1..(Len(stack) - 1) : ~GE(stack[i + 1].number.ip, stack[i].value)

----------------------------------------------------------------------------
(* Currency                                                                *)

\* the words of the integer k in the system the call was asked for
AmountWords(k) == IF barnabodha_style THEN ClassicalWords(k) ELSE Words(k)

\* the digits after the point of a canonical numeral
AfterPoint(t) == IF DotAt(t) = 0 THEN <<>> ELSE SubSeq(t, DotAt(t) + 1, Len(t))

\* the tanka of an amount: the integer part of its canonical numeral
TankaOf(t) == Norm(CharDigits(BeforePoint(t)))

\* the paisa of an amount: its first two fractional digits, as hundredths
PaisaOf(t) == Norm(SubSeq(CharDigits(AfterPoint(t)) \o <<0, 0>>, 1, 2))

TankaClause(k) == AmountWords(k) \o Blank \o Entry("tanka_label", <<>>, Register)

PaisaClause(k) ==
    AmountWords(k) \o Blank \o Entry("paisa_label", <<>>, IF Register = 0 THEN 0 ELSE 1)

\* the clauses an amount of t tanka and p paisa is to give
Clauses(t, p) ==
    IF p = ZERO THEN TankaClause(t)
    ELSE IF t = ZERO THEN PaisaClause(p)
    ELSE TankaClause(t) \o Blank \o PaisaClause(p)

\* C24: to_odia_currency emits the paisa clause (the paisa words, a blank,
\* the paisa label) if and only if the paisa value is greater than zero and
\* the tanka clause (the tanka words, a blank, the tanka label) if and only
\* if the tanka value is greater than zero or both values are zero; 5 gives
\* exactly <five> <tanka label>.
C24_CurrencyClauses ==
    (op = "to_odia_currency" /\ result.exc = "none") =>
        /\ result.val = Clauses(TankaOf(_validate_and_format(number).val),
                                PaisaOf(_validate_and_format(number).val))
        /\ number = PyInt(FALSE, <<5>>)
                => result.val = Entry("NUM_DATA", <<5>>, Register) \o Blank
                                \o Entry("tanka_label", <<>>, Register)

----------------------------------------------------------------------------
(* English words                                                           *)

\* a word of the English number table, the bare name of a unit, "hundred"
EnglishNumber(n) == Entry("ENG_NUMBER_WORDS", n, 0)

EnglishUnit(unit) == Entry("LARGE_ENG_NUMBER_WORDS", unit, 0)

EnglishHundred == Entry("hundred", <<>>, 0)

\* the parts joined by single blanks
RECURSIVE Spaced(_)
Spaced(parts) ==
    IF parts = <<>> THEN <<>>
    ELSE IF Len(parts) = 1 THEN parts[1]
    ELSE parts[1] \o Blank \o Spaced(Tail(parts))

\* the rendering of a natural number n >= 1: each denomination present as
\* the words of its count, a blank and its name, the largest first, then the
\* hundreds, then what is left below 100
RECURSIVE EnglishWords(_)
EnglishWords(n) ==
    LET crores == FloorDiv(n, CRORE)
        lakhs == FloorDiv(Mod(n, CRORE), LAKH)
        thousands == FloorDiv(Mod(n, LAKH), THOUSAND)
        hundreds == FloorDiv(Mod(n, THOUSAND), HUNDRED)
        rest == Mod(n, HUNDRED)
    IN  Spaced((IF crores = ZERO THEN <<>>
                ELSE <<EnglishWords(crores) \o Blank \o EnglishUnit(CRORE)>>)
               \o (IF lakhs = ZERO THEN <<>>
                   ELSE <<EnglishWords(lakhs) \o Blank \o EnglishUnit(LAKH)>>)
               \o (IF thousands = ZERO THEN <<>>
                   ELSE <<EnglishWords(thousands) \o Blank \o EnglishUnit(THOUSAND)>>)
               \o (IF hundreds = ZERO THEN <<>>
                   ELSE <<EnglishNumber(hundreds) \o Blank \o EnglishHundred>>)
               \o (IF rest = ZERO THEN <<>> ELSE <<EnglishNumber(rest)>>))

\* C25: number_to_words renders each denomination present in an integer as
\* the words of its count, a blank and the name of the denomination, the
\* name once and with no numeral inside it, the largest denomination first,
\* then the hundreds, then the remainder below 100; 105 is "one hundred
\* five" and 125000 is "one lakh twenty-five thousand".
C25_EnglishDenominations ==
    (op = "number_to_words" /\ IsNatural(number) /\ result.exc = "none") =>
        /\ result.val = EnglishWords(Norm(number.ip))
        /\ number = PyInt(FALSE, <<1, 0, 5>>)
                => result.val = EnglishNumber(<<1>>) \o Blank \o EnglishHundred \o Blank
                                \o EnglishNumber(<<5>>)
        /\ number = PyInt(FALSE, <<1, 2, 5, 0, 0, 0>>)
                => result.val = EnglishNumber(<<1>>) \o Blank \o EnglishUnit(LAKH) \o Blank
                                \o EnglishNumber(<<2, 5>>) \o Blank \o EnglishUnit(THOUSAND)

----------------------------------------------------------------------------
(* Classical quotients                                                     *)

\* the single-digit numerals 1 .. 9
SingleDigits == {<<d>> : d \in 1..9}

\* the frame decomposes an integer value with 101 <= value < 10^18 in the
\* classical system
DecomposesClassical(frame) ==
    /\ frame.fn = "to_odia_barnabodha_words"
    /\ frame.pc \in {"prefix", "suffix"}
    /\ ~GE(HUNDRED, frame.value)
    /\ Len(frame.value) <= 18

\* s is the words of a single digit, a blank and a classical unit label,
\* from position i on
UnitAfterSingleDigit(s, i) ==
    /\ i >= 3
    /\ s[i - 1] = SP
    /\ s[i - 2].tbl = "NUM_DATA"
    /\ s[i - 2].key \in SingleDigits
    /\ i >= 5 => s[i - 4].tbl # "NUM_DATA"

\* C26: in to_odia_barnabodha_words, for every integer value with
\* 101 <= value < 10^18 the selected magnitude is the largest classical key
\* that is <= value and the quotient by it is in 1..9, so the quotient is
\* never itself decomposed and every classical unit label of the output is
\* preceded by exactly one single-digit numeral word; the return after the
\* loop over the magnitudes is never reached for a value > 100.
C26_SingleDigitQuotient ==
    /\ \A i \in 1..Len(stack) :
            DecomposesClassical(stack[i]) =>
                /\ stack[i].unit = Pow10(Len(stack[i].value) - 1)
                /\ FloorDiv(stack[i].value, stack[i].unit) \in SingleDigits
                /\ stack[i].pc = "prefix" =>
                        /\ Len(stack) <= i + 1
                        /\ Len(stack) = i + 1 => stack[i + 1].number.ip \in SingleDigits
                /\ stack[i].pc = "suffix" =>
                        \A k \in 1..Len(stack[i].prefix) : stack[i].prefix[k].tbl = "NUM_DATA"
    /\ (stack = <<>> /\ op = "to_odia_barnabodha_words" /\ result.exc = "none"
            /\ Len(BeforePoint(_validate_and_format(number).val)) <= 18) =>
            \A i \in 1..Len(result.val) :
                result.val[i].tbl = "BARNABODHA_UNITS" => UnitAfterSingleDigit(result.val, i)
    /\ result.exc # "KeyError"

\* the quotient 9 of a value of 18 digits by 10^17 is being converted
C26_Witness ==
    /\ Len(stack) >= 2
    /\ DecomposesClassical(stack[Len(stack) - 1])
    /\ stack[Len(stack) - 1].pc = "prefix"
    /\ Len(stack[Len(stack) - 1].value) = 18
    /\ stack[Len(stack) - 1].unit = Pow10(17)
    /\ Top.number = PyInt(FALSE, <<9>>)

----------------------------------------------------------------------------
(* Ordinal numerals there and back                                         *)

\* the input is an int n >= 0
IsNaturalInt(x) == x.type = "int" /\ ~x.neg

====
